---- MODULE Spec2Model ----
(***************************************************************************)
(* HoIP (HID over IP): the magic-chord detector, the server session loop   *)
(* with its peer selector, and the client connection loop.                 *)
(*                                                                         *)
(*   SpecMagic   Magic::key / Magic::wait fed with bounded event sequences *)
(*   SpecServer  hoips: imp() main loop, connect(), peer selection         *)
(*   SpecClient  hoipc: App::run / App::connect_loop with its DropGuard    *)
(***************************************************************************)
EXTENDS Integers, Sequences, FiniteSets, TLC

(***************************************************************************)
(* Input events: (event_type: u16, code: u16, value: i32).                 *)
(***************************************************************************)
EV_SYN == 0
EV_KEY == 1
EV_REL == 2
SYN_REPORT == 0
KEY_1 == 2
KEY_2 == 3
KEY_3 == 4
KEY_A == 30
KEY_S == 31

Ev(t, c, v) == [type |-> t, code |-> c, value |-> v]

\* EventSummary::Key(_, key_code, value) of InputEvent::destructure
IsKey(e) == e.type = EV_KEY

\* EventSummary::Synchronization(_, SynchronizationCode::SYN_REPORT, 0)
IsSynReport0(e) == e.type = EV_SYN /\ e.code = SYN_REPORT /\ e.value = 0

Range(s) == {s[i] : i \in 1..Len(s)}

(***************************************************************************)
(* Bounds.                                                                 *)
(***************************************************************************)
MaxHist == 4
MaxFrames == 4
MaxSent == 2
MaxYields == 3
MaxEncoded == 2
NDev == 2

VARIABLES
    \* ---- chord detector (hoips/magic.rs)
    magic_key,        \* config.magic_key: Vec<KeyCode>
    mg,               \* the Magic value in use: [keys, armed]
    hist,             \* events fed to the detector since construction
    signals,          \* indices of hist at which Magic::key returned true
    wst,              \* Magic::wait on that stream: "waiting" | "ok" | "err"
    waitAt,           \* index of hist at which Magic::wait returned (0: none)
    \* ---- server (hoips/main.rs)
    spc,              \* await point of imp()
    exitCode,         \* "none" | "success" | "failure"
    connect_on_start, \* config.connect_on_start
    connect,          \* config.connect: Vec<SocketAddr> (empty: discovery)
    cache_lt_disc,    \* discovery_cache_timeout < discovery_timeout
    do_wait,          \* local do_wait of imp()
    remIdx,           \* position of config.connect.iter().cycle()
    cache,            \* St.cache: VecDeque<SocketAddr>
    invalid_peers,    \* Mutex<BTreeSet<SocketAddr>>
    selFut,           \* future held by stream::unfold: "none" | "racing"
    timeoutArm,       \* select! precondition !st.cache.is_empty()
    grabbed,          \* Device::is_grabbed() of every managed device
    remote,           \* peer of the current attempt ("-" if none)
    sent,             \* events written to the TCP sink of the session, kept
                      \* until the next chord or connection attempt
    chordFired,       \* a chord has completed a Magic::wait since start
    timedOut,         \* top-level timeout elapsed, no chord since
    failedPeers,      \* peers whose attempt failed, not re-learned since
    yieldVia,         \* arm of the last yield: "none"|"static"|"disc"|"cache"
    yieldCount,       \* number of peers yielded by the selector
    ndev,             \* number of requested devices found and opened
    polled,           \* events map_stream took from the devices, kept alike
    logged,           \* lines of the latest step that wrote to the log
    tcp_open,         \* TcpStream values the server holds
    \* ---- client (hoipc/app.rs)
    cpc,              \* position of App::run / connect_loop
    accepted,         \* listener.accept() of try_join! completed
    advertised,       \* disc.advertise() of try_join! completed
    pressed_keys,     \* App.pressed_keys: BTreeSet<KeyCode>
    buf,              \* local buf of connect_loop
    recv,             \* frames decoded on the current connection
    emits,            \* dev.emit calls of the current loop: [evts, ok]
    devKey,           \* last EV_KEY value the virtual device took, per key
    cleanup,          \* what the last DropGuard::drop did
    emitFailed,       \* some dev.emit call has failed
    cexit,            \* exit status of hoipc: "none" | "success" | "failure"
    listener,         \* connect_loop holds a bound TcpListener
    streams,          \* accepted TcpStream values the client holds
    cresult,          \* <<r>>: how connect_loop was last left, and the
                      \* lines logged for it; <<>> while it runs
    disc_out,         \* <<k>>: the discovery packet with the TCP port that
                      \* the latest step sent: "advertise" | "reply"
    \* ---- Crc8::calc (discovery/crc.rs)
    calc_buffer,      \* argument buffer: &[u8]
    calc_len,         \* argument len
    calc_init,        \* argument crc as passed by the caller
    calc_i,           \* local i of the while loop
    calc_crc,         \* running value of crc
    \* ---- Packet (discovery/packet.rs)
    endian,           \* byte order of the build target: "little" | "big"
    pkt,              \* <<p>>: the Packet p built by Packet::new; <<>> before
    wire,             \* the byte slice handed to Packet::try_from_bytes
    parsed,           \* <<r>>: its result r = [some, pkt]; <<>> before
    \* ---- Codec (codec.rs)
    encoded,          \* events given to Encoder::encode, in order
    dst,              \* every byte encode has appended to dst, in order
    inflight,         \* bytes of dst not yet read into the decoder's buffer
    src,              \* the decoder's read buffer
    decoded,          \* events returned by Decoder::decode, in order
    lastDecode,       \* last decode call: "-" | "none" | "some"
    \* ---- Discovery (discovery.rs)
    disc_role,        \* method running: "respond" | "discover" | "discovered"
    disc_state,       \* "run", or "failed" once the method returned Err
    disc_err,         \* kind of the io::Error it returned with, or "none"
    bind,             \* field bind: [v6, port, scope]
    disc_mcst,        \* field disc_mcst: [v6, port, scope]
    dgram,            \* <<d>>: the datagram d the last receive took; else <<>>
    read_buf,         \* filled part of the ReadBuf of the current poll
    sent_to,          \* <<m>>: the packet m the last respond() iteration sent
    polled_item,      \* <<r>>: what the last poll of discovered() returned
    \* ---- merged device stream (hoips/main.rs) into the client's frame loop
    sources,          \* per device: events its EventStream has yet to yield
    produced,         \* per device: reports the kernel has delivered so far
    merged_buf,       \* the client's buf: frames since the last SYN_REPORT
    last_emit,        \* <<e>>: the last dev.emit: [batch, syn]; <<>> before
    \* ---- the hosts of one multicast group (discovery.rs)
    lan_listen,       \* per client: the port of config.listen
    net,              \* datagrams sent and not yet received
    lan_sends,        \* calls of discover()'s send_to and of advertise()
    lan_last          \* <<t>>: the send the last receive led to: [by, sent]

magicVars == <<magic_key, mg, hist, signals, wst, waitAt>>
serverVars == <<spc, exitCode, connect_on_start, connect, cache_lt_disc,
                do_wait, remIdx, cache, invalid_peers, selFut, timeoutArm,
                grabbed, remote, sent, chordFired, timedOut, failedPeers,
                yieldVia, yieldCount, ndev, polled, logged,
                tcp_open>>
clientVars == <<cpc, accepted, advertised, pressed_keys, buf, recv, emits,
                devKey, cleanup, emitFailed, cexit, listener, streams,
                cresult, disc_out>>
calcVars == <<calc_buffer, calc_len, calc_init, calc_i, calc_crc>>
packetVars == <<endian, pkt, wire, parsed>>
codecVars == <<encoded, dst, inflight, src, decoded, lastDecode>>
discVars == <<disc_role, disc_state, disc_err, bind, disc_mcst, dgram,
              read_buf, sent_to, polled_item>>
mergeVars == <<sources, produced, merged_buf, last_emit>>
lanVars == <<lan_listen, net, lan_sends, lan_last>>
wireVars == <<calcVars, packetVars, codecVars, discVars, mergeVars, lanVars>>
vars == <<magicVars, serverVars, clientVars, wireVars>>

(***************************************************************************)
(* Magic (hoips/magic.rs)                                                  *)
(***************************************************************************)
Magic_from_iter(iter) ==
    [keys |-> [k \in Range(iter) |-> 0], armed |-> FALSE]

AllZero(keys) == \A k \in DOMAIN keys : keys[k] = 0
AllNonZero(keys) == \A k \in DOMAIN keys : keys[k] # 0

\* Magic::key arming as soon as any chord key is down
Magic_key_armsOnAny(m, key_code, value) ==
    IF key_code \in DOMAIN m.keys
    THEN LET ks == [m.keys EXCEPT ![key_code] = value] IN
         IF m.armed /\ AllZero(ks)
         THEN [m |-> [keys |-> ks, armed |-> FALSE], ret |-> TRUE]
         ELSE [m |-> [keys |-> ks, armed |-> m.armed \/ ~AllZero(ks)],
               ret |-> FALSE]
    ELSE [m |-> m, ret |-> FALSE]

\* Magic::key signalling on the first release after arming
Magic_key_firstRelease(m, key_code, value) ==
    IF key_code \in DOMAIN m.keys
    THEN LET ks == [m.keys EXCEPT ![key_code] = value] IN
         IF m.armed /\ ~AllNonZero(ks)
         THEN [m |-> [keys |-> ks, armed |-> FALSE], ret |-> TRUE]
         ELSE [m |-> [keys |-> ks, armed |-> m.armed \/ AllNonZero(ks)],
               ret |-> FALSE]
    ELSE [m |-> m, ret |-> FALSE]

\* Magic::key storing the value of whatever key it is given
Magic_key_storesAny(m, key_code, value) ==
    LET ks == [k \in DOMAIN m.keys \cup {key_code} |->
                  IF k = key_code THEN value ELSE m.keys[k]] IN
    IF m.armed /\ AllZero(ks)
    THEN [m |-> [keys |-> ks, armed |-> FALSE], ret |-> TRUE]
    ELSE [m |-> [keys |-> ks, armed |-> m.armed \/ AllNonZero(ks)],
          ret |-> FALSE]

\* fn key(&mut self, key_code, value) -> bool: the new Magic and the result
Magic_key(m, key_code, value) ==
    IF key_code \in DOMAIN m.keys
    THEN LET ks == [m.keys EXCEPT ![key_code] = value] IN
         IF m.armed /\ AllZero(ks)
         THEN [m |-> [keys |-> ks, armed |-> FALSE], ret |-> TRUE]
         ELSE [m |-> [keys |-> ks, armed |-> m.armed \/ AllNonZero(ks)],
               ret |-> FALSE]
    ELSE [m |-> m, ret |-> FALSE]

\* the closure of map_stream applied to one Ok item of the stream
map_stream(m, evt) ==
    IF IsKey(evt)
    THEN LET r == Magic_key(m, evt.code, evt.value) IN
         [m |-> r.m, item |-> IF r.ret THEN "MagicKey" ELSE "Ok"]
    ELSE [m |-> m, item |-> "Ok"]

MagicKeyChoices == {<<KEY_1>>, <<KEY_1, KEY_2>>, <<KEY_1, KEY_2, KEY_3>>}

\* chords tried by the server model
ServerMagicKeys == {<<KEY_1>>, <<KEY_1, KEY_2>>}

MagicEvents ==
    {Ev(EV_KEY, k, v) : k \in {KEY_1, KEY_2, KEY_3}, v \in {0, 1}}
        \cup {Ev(EV_KEY, KEY_1, 2), Ev(EV_SYN, SYN_REPORT, 0)}

\* no DropGuard::drop has run in this round of App::run
NoCleanup == [keys |-> {}, called |-> FALSE, evts |-> <<>>, ok |-> TRUE]

MagicIdle ==
    /\ magic_key = <<KEY_1>>
    /\ mg = Magic_from_iter(<<KEY_1>>)
    /\ hist = <<>>
    /\ signals = {}
    /\ wst = "waiting"
    /\ waitAt = 0

ServerIdle ==
    /\ spc = "exited"
    /\ exitCode = "none"
    /\ connect_on_start = FALSE
    /\ connect = <<>>
    /\ cache_lt_disc = TRUE
    /\ do_wait = TRUE
    /\ remIdx = 1
    /\ cache = <<>>
    /\ invalid_peers = {}
    /\ selFut = "none"
    /\ timeoutArm = FALSE
    /\ grabbed = [d \in 1..NDev |-> FALSE]
    /\ remote = "-"
    /\ sent = <<>>
    /\ chordFired = FALSE
    /\ timedOut = FALSE
    /\ failedPeers = {}
    /\ yieldVia = "none"
    /\ yieldCount = 0
    /\ ndev = 0
    /\ polled = <<>>
    /\ logged = <<>>
    /\ tcp_open = 0

CalcIdle ==
    /\ calc_buffer = <<>>
    /\ calc_len = 0
    /\ calc_init = 0
    /\ calc_i = 0
    /\ calc_crc = 0

PacketIdle ==
    /\ endian = "little"
    /\ pkt = <<>>
    /\ wire = <<>>
    /\ parsed = <<>>

CodecIdle ==
    /\ encoded = <<>>
    /\ dst = <<>>
    /\ inflight = <<>>
    /\ src = <<>>
    /\ decoded = <<>>
    /\ lastDecode = "-"

DiscIdle ==
    /\ disc_role = "respond"
    /\ disc_state = "failed"
    /\ disc_err = "none"
    /\ bind = [v6 |-> FALSE, port |-> 0, scope |-> 0]
    /\ disc_mcst = [v6 |-> FALSE, port |-> 0, scope |-> 0]
    /\ dgram = <<>>
    /\ read_buf = <<>>
    /\ sent_to = <<>>
    /\ polled_item = <<>>

MergeIdle ==
    /\ sources = <<>>
    /\ produced = <<>>
    /\ merged_buf = <<>>
    /\ last_emit = <<>>

LanIdle ==
    /\ lan_listen = <<>>
    /\ net = {}
    /\ lan_sends = 0
    /\ lan_last = <<>>

WireIdle ==
    CalcIdle /\ PacketIdle /\ CodecIdle /\ DiscIdle /\ MergeIdle /\ LanIdle

ClientIdle ==
    /\ cpc = "exited"
    /\ accepted = FALSE
    /\ advertised = FALSE
    /\ pressed_keys = {}
    /\ buf = <<>>
    /\ recv = <<>>
    /\ emits = <<>>
    /\ devKey = [k \in {KEY_A, KEY_S} |-> -1]
    /\ cleanup = NoCleanup
    /\ emitFailed = FALSE
    /\ cexit = "none"
    /\ listener = FALSE
    /\ streams = 0
    /\ cresult = <<>>
    /\ disc_out = <<>>

(***************************************************************************)
(* SpecMagic: one Magic built from magic_key, fed by a stream; Magic::wait *)
(* consumes the same stream and returns at the first signal.               *)
(***************************************************************************)
InitMagic ==
    /\ magic_key \in MagicKeyChoices
    /\ mg = Magic_from_iter(magic_key)
    /\ hist = <<>>
    /\ signals = {}
    /\ wst = "waiting"
    /\ waitAt = 0
    /\ ServerIdle
    /\ ClientIdle
    /\ WireIdle

\* stream.next() yields Some(Ok(evt))
MagicFeed(evt) ==
    /\ Len(hist) < MaxHist
    /\ LET r == map_stream(mg, evt) IN
       /\ mg' = r.m
       /\ hist' = Append(hist, evt)
       /\ signals' = IF r.item = "MagicKey"
                     THEN signals \cup {Len(hist) + 1} ELSE signals
       /\ IF wst = "waiting" /\ r.item = "MagicKey"
          THEN wst' = "ok" /\ waitAt' = Len(hist) + 1
          ELSE UNCHANGED <<wst, waitAt>>
    /\ UNCHANGED <<magic_key, serverVars, clientVars, wireVars>>

\* stream.next() yields Some(Err(other)) or None: wait returns Err
MagicStreamFail ==
    /\ wst = "waiting"
    /\ wst' = "err"
    /\ waitAt' = Len(hist)
    /\ UNCHANGED <<magic_key, mg, hist, signals, serverVars, clientVars, wireVars>>

NextMagic ==
    \/ \E evt \in MagicEvents : MagicFeed(evt)
    \/ MagicStreamFail

SpecMagic == InitMagic /\ [][NextMagic]_vars

(***************************************************************************)
(* Chord properties, stated on the event history alone.                    *)
(***************************************************************************)
Chord == Range(magic_key)

\* events of h[1..j] that are key events for k
KeyIdx(h, k, j) == {i \in 1..j : IsKey(h[i]) /\ h[i].code = k}

Max(S) == CHOOSE x \in S : \A y \in S : y <= x
Min(S) == CHOOSE x \in S : \A y \in S : x <= y

\* state of key k after the first j events: value of its last key event
ValAt(h, k, j) ==
    IF KeyIdx(h, k, j) = {} THEN 0 ELSE h[Max(KeyIdx(h, k, j))].value

\* index of the last signal before event i (0: construction)
LastSignal(i) ==
    IF {s \in signals : s < i} = {} THEN 0 ELSE Max({s \in signals : s < i})

\* every chord key non-zero at once at some point before event i
FullPressBefore(i) ==
    \E j \in (LastSignal(i) + 1)..(i - 1) :
        \A k \in Chord : ValAt(hist, k, j) # 0

AllReleasedBy(i) == \A k \in Chord : ValAt(hist, k, i) = 0

\* C5: the detector signals on event i iff every chord key was non-zero at
\* once at an earlier point since construction or the last signal and event
\* i leaves every chord key zero; Magic::wait returns Ok exactly at the first
\* signal and not at all while there is none.
ChordEdge ==
    /\ \A i \in 1..Len(hist) :
          (i \in signals) <=> (FullPressBefore(i) /\ AllReleasedBy(i))
    /\ wst = "ok" => signals # {} /\ waitAt = Min(signals)
    /\ wst = "waiting" => signals = {}

\* the detector has signalled, been re-armed and signalled again
ChordEdgeWitness ==
    /\ Cardinality(signals) = 2
    /\ wst = "ok"

\* h starts as: every chord key pressed (value 1) once, one after another,
\* then chord keys released (value 0), each at most once
IsPressRelease(h) ==
    LET n == Cardinality(Chord) IN
    /\ Len(h) <= 2 * n
    /\ \A i \in 1..Len(h) :
          /\ IsKey(h[i]) /\ h[i].code \in Chord
          /\ h[i].value = (IF i <= n THEN 1 ELSE 0)
    /\ \A i, j \in 1..Len(h) :
          (i < j /\ ((i <= n) <=> (j <= n))) => h[i].code # h[j].code

\* C6: pressing all n chord keys one after another and then releasing them
\* one after another signals exactly once, on the last release, where
\* Magic::wait returns Ok; no earlier event of the sequence signals.
PressReleaseOnce ==
    IsPressRelease(hist) =>
        IF Len(hist) = 2 * Cardinality(Chord)
        THEN /\ signals = {Len(hist)}
             /\ wst # "err" => wst = "ok" /\ waitAt = Len(hist)
        ELSE signals = {} /\ wst # "ok"

PressReleaseWitness ==
    /\ Len(magic_key) = 2
    /\ Len(hist) = 4
    /\ IsPressRelease(hist)
    /\ wst = "ok"

(***************************************************************************)
(* Server (hoips/main.rs)                                                  *)
(***************************************************************************)
Devices == 1..NDev
Peers == {"a", "b"}
ConnectChoices == {<<>>, <<"a">>, <<"a", "b">>}

\* events the merged device stream can deliver
ServerEvents ==
    {Ev(EV_KEY, k, v) : k \in {KEY_1, KEY_2}, v \in {0, 1}}
        \cup {Ev(EV_REL, 0, 1)}

magicIdleVars == <<hist, signals, wst, waitAt>>

\* head of the main loop: `if do_wait { Magic::wait(..) }`, then try_next
LoopTop_noWait(dw) == "select"

LoopTop(dw) == IF dw THEN "wait1" ELSE "select"

\* st.cache.retain(|elt| !bad.contains(elt))
Prune_keepAll(c, bad) == c

Prune(c, bad) == SelectSeq(c, LAMBDA elt : elt \notin bad)

\* try_next: an address already in the cache is skipped (`continue`)
TryNextBreaks(c, value) == value \notin Range(c)

\* config.connect.iter().cycle(): position after yielding connect[idx]
CycleNext_noWrap(idx, n) == IF idx = n THEN n ELSE idx + 1

CycleNext(idx, n) == IF idx = n THEN 1 ELSE idx + 1

\* `for dev in .. { dev.device_mut().grab()? }`; failAt = 0: no failure
GrabLoop(g, n, failAt) ==
    [d \in Devices |->
        IF d <= n /\ (failAt = 0 \/ d < failAt) THEN TRUE ELSE g[d]]

\* a loop that releases the first device only
UngrabLoop_firstOnly(g, failAt) ==
    [d \in Devices |-> IF d = 1 THEN FALSE ELSE g[d]]

\* `for dev in .. { dev.device_mut().ungrab()? }`; failAt = 0: no failure
UngrabLoop(g, failAt) ==
    [d \in Devices |-> IF failAt = 0 \/ d < failAt THEN FALSE ELSE g[d]]

\* an ungrab() call can only fail on a device that is grabbed
UngrabFailures(g) == {0} \cup {d \in Devices : g[d]}

InitServer ==
    /\ magic_key \in ServerMagicKeys
    /\ mg = Magic_from_iter(magic_key)
    /\ hist = <<>>
    /\ signals = {}
    /\ wst = "waiting"
    /\ waitAt = 0
    /\ connect_on_start \in BOOLEAN
    /\ connect \in ConnectChoices
    /\ cache_lt_disc \in BOOLEAN
    /\ do_wait = ~connect_on_start
    /\ spc = LoopTop(do_wait)
    /\ exitCode = "none"
    /\ remIdx = 1
    /\ cache = <<>>
    /\ invalid_peers = {}
    /\ selFut = "none"
    /\ timeoutArm = FALSE
    /\ grabbed = [d \in Devices |-> FALSE]
    /\ remote = "-"
    /\ sent = <<>>
    /\ chordFired = FALSE
    /\ timedOut = FALSE
    /\ failedPeers = {}
    /\ yieldVia = "none"
    /\ yieldCount = 0
    /\ ndev \in 0..NDev
    /\ polled = <<>>
    /\ logged = <<>>
    /\ tcp_open = 0
    /\ ClientIdle
    /\ WireIdle

\* lines of the log: tracing::info!, warn! and error!
LogLine(level, msg) == [level |-> level, msg |-> msg]
LogFromCache == LogLine("info", "No new discoveries, using peer from cache")
LogNoRemote == LogLine("warn", "No remote found, timeout elapsed")
LogConnecting == LogLine("info", "Connecting...")
LogMagicKey == LogLine("info", "Magic key pressed")
LogError == LogLine("error", "{e:?}")
LogUngrabbed == LogLine("info", "Ungrabbed devices")
LogConnected == LogLine("info", "Connected to remote")
LogGrabbed == LogLine("info", "Grabbed devices")

\* what the match on connect()'s result logs (lines 254-264)
ConnectLog(result) ==
    IF result = "MagicKey" THEN <<LogMagicKey>>
    ELSE IF result = "Other" THEN <<LogError>>
    ELSE <<>>

\* logged after a step that wrote lines l (no line: the log is as before)
Written(l) == IF l = <<>> THEN logged ELSE l

\* imp() returns Err: main logs it and ends with ExitCode::FAILURE
ImpFails ==
    /\ spc' = "exited"
    /\ exitCode' = "failure"

\* lines 237-241, first wait: an event that does not complete the chord
Wait1Event(evt) ==
    /\ spc = "wait1"
    /\ ndev > 0
    /\ map_stream(mg, evt).item = "Ok"
    /\ mg' = map_stream(mg, evt).m
    /\ UNCHANGED <<magic_key, magicIdleVars, serverVars, clientVars, wireVars>>

\* Magic::wait returns Ok: go on to remotes.try_next()
Wait1Chord(evt) ==
    /\ spc = "wait1"
    /\ ndev > 0
    /\ map_stream(mg, evt).item = "MagicKey"
    /\ mg' = map_stream(mg, evt).m
    /\ spc' = "select"
    /\ chordFired' = TRUE
    /\ timedOut' = FALSE
    /\ sent' = <<>>
    /\ polled' = <<>>
    /\ UNCHANGED <<magic_key, magicIdleVars, clientVars, wireVars,
                   ndev, logged, tcp_open>>
    /\ UNCHANGED <<exitCode, connect_on_start, connect, cache_lt_disc,
                   do_wait, remIdx, cache, invalid_peers, selFut, timeoutArm,
                   grabbed, remote, failedPeers, yieldVia, yieldCount>>

\* the device stream yields an error or ends: `.context(..)?` leaves imp
Wait1Fail ==
    /\ spc = "wait1"
    /\ ImpFails
    /\ logged' = <<LogError>>
    /\ UNCHANGED <<magicVars, clientVars, wireVars, ndev, polled, tcp_open>>
    /\ UNCHANGED <<connect_on_start, connect, cache_lt_disc,
                   do_wait, remIdx, cache, invalid_peers, selFut, timeoutArm,
                   grabbed, remote, sent, chordFired, timedOut, failedPeers,
                   yieldVia, yieldCount>>

\* a peer was yielded: `connect(remote, ..)` is awaited
Yield(peer, via) ==
    /\ yieldCount < MaxYields
    /\ logged' = IF via = "cache"
                 THEN <<LogFromCache, LogConnecting>>
                 ELSE <<LogConnecting>>
    /\ remote' = peer
    /\ yieldVia' = via
    /\ yieldCount' = yieldCount + 1
    /\ spc' = "connecting"

\* static mode: stream::iter(config.connect.iter().cycle())
SelectStatic ==
    /\ spc = "select"
    /\ connect # <<>>
    /\ Yield(connect[remIdx], "static")
    /\ remIdx' = CycleNext(remIdx, Len(connect))
    /\ UNCHANGED <<magicVars, clientVars, wireVars, ndev, polled, tcp_open>>
    /\ UNCHANGED <<exitCode, connect_on_start, connect, cache_lt_disc,
                   do_wait, cache, invalid_peers, selFut, timeoutArm,
                   grabbed, sent, chordFired, timedOut, failedPeers>>

\* a selector whose cache-timeout arm is always enabled
SelectBegin_alwaysArm ==
    /\ spc = "select"
    /\ connect = <<>>
    /\ selFut = "none"
    /\ cache' = Prune(cache, invalid_peers)
    /\ invalid_peers' = {}
    /\ timeoutArm' = TRUE
    /\ selFut' = "racing"
    /\ UNCHANGED <<magicVars, clientVars, wireVars, ndev, polled, logged,
                   tcp_open>>
    /\ UNCHANGED <<spc, exitCode, connect_on_start, connect, cache_lt_disc,
                   do_wait, remIdx, grabbed, remote, sent, chordFired,
                   timedOut, failedPeers, yieldVia, yieldCount>>

\* discovery mode, first poll of a new unfold future: prune the cache by the
\* blacklist, clear the blacklist, evaluate the select! precondition
SelectBegin ==
    /\ spc = "select"
    /\ connect = <<>>
    /\ selFut = "none"
    /\ cache' = Prune(cache, invalid_peers)
    /\ invalid_peers' = {}
    /\ timeoutArm' = (cache' # <<>>)
    /\ selFut' = "racing"
    /\ UNCHANGED <<magicVars, clientVars, wireVars, ndev, polled, logged,
                   tcp_open>>
    /\ UNCHANGED <<spc, exitCode, connect_on_start, connect, cache_lt_disc,
                   do_wait, remIdx, grabbed, remote, sent, chordFired,
                   timedOut, failedPeers, yieldVia, yieldCount>>

\* a new-discovery arm that does not skip addresses already in the cache
SelectDiscovered_noSkip(peer) ==
    /\ spc = "select"
    /\ selFut = "racing"
    /\ cache' = Append(cache, peer)
    /\ selFut' = "none"
    /\ failedPeers' = failedPeers \ {peer}
    /\ Yield(peer, "disc")
    /\ UNCHANGED <<magicVars, clientVars, wireVars, ndev, polled, tcp_open>>
    /\ UNCHANGED <<exitCode, connect_on_start, connect, cache_lt_disc,
                   do_wait, remIdx, invalid_peers, timeoutArm, grabbed, sent,
                   chordFired, timedOut>>

\* arm try_next: discovered() yields an address that is not in the cache
SelectDiscovered(peer) ==
    /\ spc = "select"
    /\ selFut = "racing"
    /\ TryNextBreaks(cache, peer)
    /\ cache' = Append(cache, peer)
    /\ selFut' = "none"
    /\ failedPeers' = failedPeers \ {peer}
    /\ Yield(peer, "disc")
    /\ UNCHANGED <<magicVars, clientVars, wireVars, ndev, polled, tcp_open>>
    /\ UNCHANGED <<exitCode, connect_on_start, connect, cache_lt_disc,
                   do_wait, remIdx, invalid_peers, timeoutArm, grabbed, sent,
                   chordFired, timedOut>>

\* a cache-timeout arm that reads the front of the cache without popping it
SelectCacheTimeout_peek ==
    /\ spc = "select"
    /\ selFut = "racing"
    /\ timeoutArm
    /\ cache' = Append(cache, Head(cache))
    /\ selFut' = "none"
    /\ Yield(Head(cache), "cache")
    /\ UNCHANGED <<magicVars, clientVars, wireVars, ndev, polled, tcp_open>>
    /\ UNCHANGED <<exitCode, connect_on_start, connect, cache_lt_disc,
                   do_wait, remIdx, invalid_peers, timeoutArm, grabbed, sent,
                   chordFired, timedOut, failedPeers>>

\* arm timeout (cache_timeout, enabled by the precondition): reuse the head
SelectCacheTimeout ==
    /\ spc = "select"
    /\ selFut = "racing"
    /\ timeoutArm
    /\ cache' = Append(Tail(cache), Head(cache))
    /\ selFut' = "none"
    /\ Yield(Head(cache), "cache")
    /\ UNCHANGED <<magicVars, clientVars, wireVars, ndev, polled, tcp_open>>
    /\ UNCHANGED <<exitCode, connect_on_start, connect, cache_lt_disc,
                   do_wait, remIdx, invalid_peers, timeoutArm, grabbed, sent,
                   chordFired, timedOut, failedPeers>>

\* discovered() or discover() fails: the stream yields Err, imp returns it
SelectError ==
    /\ spc = "select"
    /\ selFut = "racing"
    /\ selFut' = "none"
    /\ ImpFails
    /\ logged' = <<LogError>>
    /\ UNCHANGED <<magicVars, clientVars, wireVars, ndev, polled, tcp_open>>
    /\ UNCHANGED <<connect_on_start, connect, cache_lt_disc,
                   do_wait, remIdx, cache, invalid_peers, timeoutArm,
                   grabbed, remote, sent, chordFired, timedOut, failedPeers,
                   yieldVia, yieldCount>>

\* a timeout after which the server asks the selector again at once
SelectTimeout_stay ==
    /\ spc = "select"
    /\ selFut = "racing"
    /\ cache_lt_disc => ~timeoutArm
    /\ timedOut' = TRUE
    /\ spc' = "select"
    /\ mg' = Magic_from_iter(magic_key)
    /\ logged' = <<LogNoRemote>>
    /\ UNCHANGED <<magic_key, magicIdleVars, clientVars, wireVars,
                   ndev, polled, tcp_open>>
    /\ UNCHANGED <<exitCode, connect_on_start, connect, cache_lt_disc,
                   do_wait, remIdx, cache, invalid_peers, selFut, timeoutArm,
                   grabbed, remote, sent, chordFired, failedPeers, yieldVia,
                   yieldCount>>

\* tokio::time::timeout(discovery_timeout, ..) elapses: warn and `continue`;
\* the unfold stream keeps its pending future
SelectTimeout ==
    /\ spc = "select"
    /\ selFut = "racing"
    /\ cache_lt_disc => ~timeoutArm
    /\ timedOut' = TRUE
    /\ spc' = LoopTop(do_wait)
    /\ mg' = Magic_from_iter(magic_key)
    /\ logged' = <<LogNoRemote>>
    /\ UNCHANGED <<magic_key, magicIdleVars, clientVars, wireVars,
                   ndev, polled, tcp_open>>
    /\ UNCHANGED <<exitCode, connect_on_start, connect, cache_lt_disc,
                   do_wait, remIdx, cache, invalid_peers, selFut, timeoutArm,
                   grabbed, remote, sent, chordFired, failedPeers, yieldVia,
                   yieldCount>>

\* a loop tail that ungrabs at once however the session ended
PostConnect_ungrabAtOnce(result, g, uf, pre) ==
    /\ invalid_peers' = IF result = "Other"
                        THEN invalid_peers \cup {remote} ELSE invalid_peers
    /\ failedPeers' = IF result = "Other"
                      THEN failedPeers \cup {remote} ELSE failedPeers
    /\ mg' = Magic_from_iter(magic_key)
    /\ IF \E d \in Devices : g[d]
       THEN /\ do_wait' = TRUE
            /\ uf \in UngrabFailures(g)
            /\ grabbed' = UngrabLoop(g, uf)
            /\ logged' = pre \o ConnectLog(result)
                             \o <<IF uf = 0 THEN LogUngrabbed ELSE LogError>>
            /\ IF uf = 0
               THEN spc' = LoopTop(TRUE) /\ UNCHANGED exitCode
               ELSE ImpFails
       ELSE /\ uf = 0
            /\ grabbed' = g
            /\ logged' = Written(pre \o ConnectLog(result))
            /\ spc' = LoopTop(do_wait)
            /\ UNCHANGED <<do_wait, exitCode>>

\* a loop tail that treats the chord like any other error of connect()
PostConnect_chordAsError(result, g, uf, pre) ==
    /\ invalid_peers' = invalid_peers \cup {remote}
    /\ failedPeers' = failedPeers \cup {remote}
    /\ mg' = Magic_from_iter(magic_key)
    /\ IF \E d \in Devices : g[d]
       THEN /\ do_wait' = TRUE
            /\ uf = 0
            /\ spc' = "wait2"
            /\ grabbed' = g
            /\ logged' = pre \o <<LogError>>
            /\ UNCHANGED <<exitCode>>
       ELSE /\ uf = 0
            /\ grabbed' = g
            /\ logged' = pre \o <<LogError>>
            /\ spc' = LoopTop(do_wait)
            /\ UNCHANGED <<do_wait, exitCode>>

\* a loop tail that leaves do_wait as it was
PostConnect_noRearm(result, g, uf, pre) ==
    /\ invalid_peers' = IF result = "Other"
                        THEN invalid_peers \cup {remote} ELSE invalid_peers
    /\ failedPeers' = IF result = "Other"
                      THEN failedPeers \cup {remote} ELSE failedPeers
    /\ mg' = Magic_from_iter(magic_key)
    /\ UNCHANGED do_wait
    /\ IF \E d \in Devices : g[d]
       THEN IF result # "MagicKey"
            THEN /\ uf = 0
                 /\ spc' = "wait2"
                 /\ grabbed' = g
                 /\ logged' = Written(pre \o ConnectLog(result))
                 /\ UNCHANGED <<exitCode>>
            ELSE /\ uf \in UngrabFailures(g)
                 /\ grabbed' = UngrabLoop(g, uf)
                 /\ logged' = pre \o ConnectLog(result)
                       \o <<IF uf = 0 THEN LogUngrabbed ELSE LogError>>
                 /\ IF uf = 0
                    THEN spc' = LoopTop(do_wait) /\ UNCHANGED exitCode
                    ELSE ImpFails
       ELSE /\ uf = 0
            /\ grabbed' = g
            /\ logged' = Written(pre \o ConnectLog(result))
            /\ spc' = LoopTop(do_wait)
            /\ UNCHANGED <<exitCode>>

\* lines 253-286: what imp does once connect() has returned `result`
\* ("Ok", "MagicKey" or "Other") with the devices in state g; uf is the
\* device on which ungrab() fails (0: none); pre are the lines connect()
\* logged before it returned
PostConnect(result, g, uf, pre) ==
    /\ invalid_peers' = IF result = "Other"
                        THEN invalid_peers \cup {remote} ELSE invalid_peers
    /\ failedPeers' = IF result = "Other"
                      THEN failedPeers \cup {remote} ELSE failedPeers
    /\ mg' = Magic_from_iter(magic_key)
    /\ IF \E d \in Devices : g[d]
       THEN /\ do_wait' = TRUE
            /\ IF result # "MagicKey"
               THEN /\ uf = 0
                    /\ spc' = "wait2"
                    /\ grabbed' = g
                    /\ logged' = Written(pre \o ConnectLog(result))
                    /\ UNCHANGED <<exitCode>>
               ELSE /\ uf \in UngrabFailures(g)
                    /\ grabbed' = UngrabLoop(g, uf)
                    /\ logged' = pre \o ConnectLog(result)
                          \o <<IF uf = 0 THEN LogUngrabbed ELSE LogError>>
                    /\ IF uf = 0
                       THEN spc' = LoopTop(TRUE) /\ UNCHANGED exitCode
                       ELSE ImpFails
       ELSE /\ uf = 0
            /\ grabbed' = g
            /\ logged' = Written(pre \o ConnectLog(result))
            /\ spc' = LoopTop(do_wait)
            /\ UNCHANGED <<do_wait, exitCode>>

\* TcpStream::connect fails: connect() returns Err(Other)
ConnectFail ==
    /\ spc = "connecting"
    /\ PostConnect("Other", grabbed, 0, <<>>)
    /\ sent' = <<>>
    /\ polled' = <<>>
    /\ UNCHANGED <<magic_key, magicIdleVars, clientVars, wireVars, ndev,
                   tcp_open>>
    /\ UNCHANGED <<connect_on_start, connect, cache_lt_disc, remIdx, cache,
                   selFut, timeoutArm, remote, chordFired, timedOut,
                   yieldVia, yieldCount>>

\* a connect() that goes on to send_all although grab() failed on failAt
ConnectGrabFail_ignore(failAt) ==
    /\ spc = "connecting"
    /\ failAt \in 1..ndev
    /\ grabbed' = GrabLoop(grabbed, ndev, failAt)
    /\ mg' = Magic_from_iter(magic_key)
    /\ sent' = <<>>
    /\ polled' = <<>>
    /\ spc' = "active"
    /\ logged' = <<LogConnected, LogGrabbed>>
    /\ tcp_open' = tcp_open + 1
    /\ UNCHANGED <<magic_key, magicIdleVars, clientVars, wireVars, ndev>>
    /\ UNCHANGED <<exitCode, connect_on_start, connect, cache_lt_disc,
                   do_wait, remIdx, cache, invalid_peers, selFut, timeoutArm,
                   remote, chordFired, timedOut, failedPeers, yieldVia,
                   yieldCount>>

\* TCP connected, grab() fails on device failAt: connect() returns Err(Other)
ConnectGrabFail(failAt) ==
    /\ spc = "connecting"
    /\ failAt \in 1..ndev
    /\ PostConnect("Other", GrabLoop(grabbed, ndev, failAt), 0,
                   <<LogConnected>>)
    /\ sent' = <<>>
    /\ polled' = <<>>
    /\ UNCHANGED <<magic_key, magicIdleVars, clientVars, wireVars, ndev,
                   tcp_open>>
    /\ UNCHANGED <<connect_on_start, connect, cache_lt_disc, remIdx, cache,
                   selFut, timeoutArm, remote, chordFired, timedOut,
                   yieldVia, yieldCount>>

\* TCP connected, every device grabbed: send_all starts on a new Magic
ConnectOk ==
    /\ spc = "connecting"
    /\ grabbed' = GrabLoop(grabbed, ndev, 0)
    /\ mg' = Magic_from_iter(magic_key)
    /\ sent' = <<>>
    /\ spc' = "active"
    /\ polled' = <<>>
    /\ logged' = <<LogConnected, LogGrabbed>>
    /\ tcp_open' = tcp_open + 1
    /\ UNCHANGED <<magic_key, magicIdleVars, clientVars, wireVars, ndev>>
    /\ UNCHANGED <<exitCode, connect_on_start, connect, cache_lt_disc,
                   do_wait, remIdx, cache, invalid_peers, selFut, timeoutArm,
                   remote, chordFired, timedOut, failedPeers, yieldVia,
                   yieldCount>>

\* send_all: an event that does not complete the chord is written to the sink
ActiveForward(evt) ==
    /\ spc = "active"
    /\ ndev > 0
    /\ map_stream(mg, evt).item = "Ok"
    /\ Len(sent) < MaxSent
    /\ mg' = map_stream(mg, evt).m
    /\ sent' = Append(sent, evt)
    /\ polled' = Append(polled, evt)
    /\ UNCHANGED <<magic_key, magicIdleVars, clientVars, wireVars,
                   ndev, logged, tcp_open>>
    /\ UNCHANGED <<spc, exitCode, connect_on_start, connect, cache_lt_disc,
                   do_wait, remIdx, cache, invalid_peers, selFut, timeoutArm,
                   grabbed, remote, chordFired, timedOut, failedPeers,
                   yieldVia, yieldCount>>

\* a session that writes the chord-completing event to the sink as well
ActiveChord_forward(evt, uf) ==
    /\ spc = "active"
    /\ ndev > 0
    /\ map_stream(mg, evt).item = "MagicKey"
    /\ PostConnect("MagicKey", grabbed, uf, <<>>)
    /\ timedOut' = FALSE
    /\ polled' = Append(polled, evt)
    /\ sent' = Append(sent, evt)
    /\ tcp_open' = tcp_open - 1
    /\ UNCHANGED <<magic_key, magicIdleVars, clientVars, wireVars, ndev>>
    /\ UNCHANGED <<connect_on_start, connect, cache_lt_disc, remIdx, cache,
                   selFut, timeoutArm, remote, chordFired,
                   yieldVia, yieldCount>>

\* map_stream replaces the chord-completing event by Err(MagicKey)
ActiveChord(evt, uf) ==
    /\ spc = "active"
    /\ ndev > 0
    /\ map_stream(mg, evt).item = "MagicKey"
    /\ PostConnect("MagicKey", grabbed, uf, <<>>)
    /\ timedOut' = FALSE
    /\ polled' = Append(polled, evt)
    /\ tcp_open' = tcp_open - 1
    /\ UNCHANGED sent
    /\ UNCHANGED <<magic_key, magicIdleVars, clientVars, wireVars, ndev>>
    /\ UNCHANGED <<connect_on_start, connect, cache_lt_disc, remIdx, cache,
                   selFut, timeoutArm, remote, chordFired,
                   yieldVia, yieldCount>>

\* the TCP sink fails, or the device stream yields an error
ActiveError ==
    /\ spc = "active"
    /\ PostConnect("Other", grabbed, 0, <<>>)
    /\ tcp_open' = tcp_open - 1
    /\ UNCHANGED sent
    /\ UNCHANGED <<magic_key, magicIdleVars, clientVars, wireVars,
                   ndev, polled>>
    /\ UNCHANGED <<connect_on_start, connect, cache_lt_disc, remIdx, cache,
                   selFut, timeoutArm, remote, chordFired, timedOut,
                   yieldVia, yieldCount>>

\* no device was opened, the merged stream is empty and ends at once:
\* send_all completes and connect() returns Ok
ActiveStreamEnd ==
    /\ spc = "active"
    /\ ndev = 0
    /\ PostConnect("Ok", grabbed, 0, <<>>)
    /\ tcp_open' = tcp_open - 1
    /\ UNCHANGED sent
    /\ UNCHANGED <<magic_key, magicIdleVars, clientVars, wireVars,
                   ndev, polled>>
    /\ UNCHANGED <<connect_on_start, connect, cache_lt_disc, remIdx, cache,
                   selFut, timeoutArm, remote, chordFired, timedOut,
                   yieldVia, yieldCount>>

\* lines 277-279, wait before ungrab: an event that does not complete the chord
Wait2Event(evt) ==
    /\ spc = "wait2"
    /\ ndev > 0
    /\ map_stream(mg, evt).item = "Ok"
    /\ mg' = map_stream(mg, evt).m
    /\ UNCHANGED <<magic_key, magicIdleVars, serverVars, clientVars, wireVars>>

\* chord completed: ungrab every device (lines 281-283), next iteration
Wait2Chord(evt, uf) ==
    /\ spc = "wait2"
    /\ ndev > 0
    /\ map_stream(mg, evt).item = "MagicKey"
    /\ uf \in UngrabFailures(grabbed)
    /\ mg' = Magic_from_iter(magic_key)
    /\ grabbed' = UngrabLoop(grabbed, uf)
    /\ chordFired' = TRUE
    /\ timedOut' = FALSE
    /\ sent' = <<>>
    /\ polled' = <<>>
    /\ IF uf = 0
       THEN spc' = LoopTop(do_wait) /\ UNCHANGED exitCode
       ELSE ImpFails
    /\ logged' = IF uf = 0 THEN <<LogUngrabbed>> ELSE <<LogError>>
    /\ UNCHANGED <<magic_key, magicIdleVars, clientVars, wireVars, ndev,
                   tcp_open>>
    /\ UNCHANGED <<connect_on_start, connect, cache_lt_disc, do_wait, remIdx,
                   cache, invalid_peers, selFut, timeoutArm, remote,
                   failedPeers, yieldVia, yieldCount>>

\* the device stream yields an error or ends while waiting: imp returns Err
Wait2Fail ==
    /\ spc = "wait2"
    /\ ImpFails
    /\ logged' = <<LogError>>
    /\ UNCHANGED <<magicVars, clientVars, wireVars, ndev, polled, tcp_open>>
    /\ UNCHANGED <<connect_on_start, connect, cache_lt_disc,
                   do_wait, remIdx, cache, invalid_peers, selFut, timeoutArm,
                   grabbed, remote, sent, chordFired, timedOut, failedPeers,
                   yieldVia, yieldCount>>

\* main: ctrl_c completes first, the imp future is dropped
ServerCancel ==
    /\ spc # "exited"
    /\ spc' = "exited"
    /\ exitCode' = "success"
    /\ tcp_open' = 0
    /\ UNCHANGED <<magicVars, clientVars, wireVars, ndev, polled, logged>>
    /\ UNCHANGED <<connect_on_start, connect, cache_lt_disc,
                   do_wait, remIdx, cache, invalid_peers, selFut, timeoutArm,
                   grabbed, remote, sent, chordFired, timedOut, failedPeers,
                   yieldVia, yieldCount>>

NextServer ==
    \/ \E evt \in ServerEvents : Wait1Event(evt)
    \/ \E evt \in ServerEvents : Wait1Chord(evt)
    \/ Wait1Fail
    \/ SelectStatic
    \/ SelectBegin
    \/ \E peer \in Peers : SelectDiscovered(peer)
    \/ SelectCacheTimeout
    \/ SelectError
    \/ SelectTimeout
    \/ ConnectFail
    \/ \E failAt \in Devices : ConnectGrabFail(failAt)
    \/ ConnectOk
    \/ \E evt \in ServerEvents : ActiveForward(evt)
    \/ \E evt \in ServerEvents, uf \in {0} \cup Devices : ActiveChord(evt, uf)
    \/ ActiveError
    \/ ActiveStreamEnd
    \/ \E evt \in ServerEvents : Wait2Event(evt)
    \/ \E evt \in ServerEvents, uf \in {0} \cup Devices : Wait2Chord(evt, uf)
    \/ Wait2Fail
    \/ ServerCancel

SpecServer == InitServer /\ [][NextServer]_vars

(***************************************************************************)
(* Server properties.                                                      *)
(***************************************************************************)
NoneGrabbed == \A d \in Devices : ~grabbed[d]

\* C1: once the server has left the active session and finished handling
\* that exit (it neither forwards nor waits for the chord before the ungrab
\* any more), ungrab has run on every device: no device is still grabbed.
UngrabOnEveryExit == spc \notin {"active", "wait2"} => NoneGrabbed

\* C7: with connect_on_start the server is selecting from the start, with
\* no chord; without it there is no selection, no peer and no connection
\* until a chord has completed Magic::wait.
StartupGate ==
    /\ (connect_on_start /\ yieldCount = 0 /\ selFut = "none" /\ ~timedOut)
          => spc \in {"select", "exited"} /\ ~chordFired
    /\ (~connect_on_start /\ ~chordFired)
          => /\ spc \in {"wait1", "exited"}
             /\ selFut = "none"
             /\ yieldCount = 0
             /\ remote = "-"
             /\ NoneGrabbed

StartupGateWitness ==
    /\ ~connect_on_start
    /\ chordFired
    /\ spc = "connecting"
    /\ yieldCount = 1

\* C8: after the top-level timeout has elapsed the server opens no connection
\* to any peer until the chord has been pressed again.
NoConnectAfterTimeout ==
    timedOut => spc \notin {"connecting", "active", "wait2"}

\* C9: in discovery mode a peer whose attempt failed is in the blacklist
\* until the next request, which prunes it from the cache; it is not yielded
\* from the cache until the discovery arm has yielded it again.
BlacklistPrunes ==
    connect = <<>> =>
        /\ \A p \in failedPeers :
              \/ p \in invalid_peers /\ selFut = "none"
              \/ p \notin Range(cache)
        /\ (spc = "connecting" /\ yieldVia = "cache")
              => remote \notin failedPeers

BlacklistPrunesWitness ==
    /\ connect = <<>>
    /\ selFut = "racing"
    /\ failedPeers = {"b"}
    /\ cache = <<"a">>

\* C10: in static mode the k-th yielded peer is list[k mod n] in list order,
\* the selector is never pending and never times out, and a peer whose
\* attempt failed is yielded again on its turn.
StaticCycle ==
    connect # <<>> =>
        /\ yieldCount > 0 =>
              /\ yieldVia = "static"
              /\ remote = connect[((yieldCount - 1) % Len(connect)) + 1]
        /\ remIdx = (yieldCount % Len(connect)) + 1
        /\ selFut = "none"
        /\ ~timedOut

StaticCycleWitness ==
    /\ Len(connect) = 2
    /\ yieldCount = 3
    /\ spc = "connecting"
    /\ remote \in invalid_peers

(***************************************************************************)
(* Client (hoipc/app.rs, hoipc/main.rs)                                    *)
(***************************************************************************)
ClientKeys == {KEY_A, KEY_S}

\* frames a connection can deliver
ClientEvents ==
    {Ev(EV_KEY, KEY_A, 1), Ev(EV_KEY, KEY_A, 0),
     Ev(EV_KEY, KEY_S, 2),
     Ev(EV_SYN, SYN_REPORT, 0), Ev(EV_SYN, SYN_REPORT, 1),
     Ev(EV_REL, 0, 1)}

\* lines 82-88: pressed_keys after a decoded frame
PressedUpdate(pk, next) ==
    IF IsKey(next)
    THEN IF next.value = 0 THEN pk \ {next.code} ELSE pk \cup {next.code}
    ELSE pk

\* the loop body keeping the batch after it was emitted
LoopStep_keepBuf(b, next) ==
    IF IsSynReport0(next)
    THEN [emit |-> TRUE, batch |-> b, buf |-> b]
    ELSE [emit |-> FALSE, batch |-> <<>>, buf |-> Append(b, next)]

\* lines 81-96: SYN_REPORT with value 0 emits buf and clears it (`continue`),
\* every other frame is pushed to buf
LoopStep(b, next) ==
    IF IsSynReport0(next)
    THEN [emit |-> TRUE, batch |-> b, buf |-> <<>>]
    ELSE [emit |-> FALSE, batch |-> <<>>, buf |-> Append(b, next)]

\* the virtual device after a successful dev.emit(evts): key state per key
RECURSIVE Emit(_, _)
Emit(dk, evts) ==
    IF evts = <<>> THEN dk
    ELSE Emit(IF IsKey(Head(evts)) /\ Head(evts).code \in DOMAIN dk
              THEN [dk EXCEPT ![Head(evts).code] = Head(evts).value]
              ELSE dk,
              Tail(evts))

\* `while let Some(key) = pressed_keys.pop_first() { evts.push(key-up) }`
RECURSIVE PopAll(_)
PopAll(pk) ==
    IF pk = {} THEN <<>>
    ELSE LET key == Min(pk) IN <<Ev(EV_KEY, key, 0)>> \o PopAll(pk \ {key})

\* a drop that gives up on the set when the emission fails
DropGuard_drop_keepOnError(pk, ok) ==
    [called |-> pk # {},
     evts |-> PopAll(pk),
     pressed |-> IF ok THEN {} ELSE pk]

\* DropGuard::drop: the emit call it makes and pressed_keys afterwards
DropGuard_drop(pk, ok) ==
    [called |-> pk # {},
     evts |-> PopAll(pk),
     pressed |-> {}]

InitClient ==
    /\ cpc = "bind"
    /\ accepted = FALSE
    /\ advertised = FALSE
    /\ pressed_keys = {}
    /\ buf = <<>>
    /\ recv = <<>>
    /\ emits = <<>>
    /\ devKey = [k \in ClientKeys |-> -1]
    /\ cleanup = NoCleanup
    /\ emitFailed = FALSE
    /\ cexit = "none"
    /\ listener = FALSE
    /\ streams = 0
    /\ cresult = <<>>
    /\ disc_out = <<>>
    /\ MagicIdle
    /\ ServerIdle
    /\ WireIdle

\* lines of connect_loop and App::run
ClientLogClosed == LogLine("info", "Connection closed normally")
ClientLogError == LogLine("error", "{e:?}")

\* what the end of connect_loop writes to the log: Ok(()) after the info
\* line of the clean end, Err(e) through tracing::error! of App::run, and
\* nothing when the future is dropped by select! of main_imp
RunLog(how) ==
    IF how = "eof" THEN <<ClientLogClosed>>
    ELSE IF how = "dropped" THEN <<>> ELSE <<ClientLogError>>

Left(how) == <<[how |-> how, log |-> RunLog(how)]>>

\* connect_loop is left (return or drop of its future): DropGuard::drop runs
\* with ok as the outcome of its emit call; then the position becomes next;
\* failed: the exit is due to a failed dev.emit of the loop
LeaveLoop(ok, next, failed) ==
    LET d == DropGuard_drop(pressed_keys, ok) IN
    /\ d.called \/ ok
    /\ cleanup' = [keys |-> pressed_keys, called |-> d.called,
                   evts |-> d.evts, ok |-> ok]
    /\ pressed_keys' = d.pressed
    /\ devKey' = IF d.called /\ ok THEN Emit(devKey, d.evts) ELSE devKey
    /\ emitFailed' = (emitFailed \/ failed \/ ~ok)
    /\ buf' = <<>>
    /\ cpc' = next
    /\ accepted' = FALSE
    /\ advertised' = FALSE
    /\ listener' = FALSE
    /\ streams' = 0

\* TcpListener::bind succeeds; try_join!(accept, advertise) starts
BindOk ==
    /\ cpc = "bind"
    /\ cpc' = "listen"
    /\ recv' = <<>>
    /\ emits' = <<>>
    /\ cleanup' = NoCleanup
    /\ listener' = TRUE
    /\ UNCHANGED streams
    /\ UNCHANGED <<accepted, advertised, pressed_keys, buf, devKey,
                   emitFailed>>
    /\ cresult' = <<>>
    /\ disc_out' = <<>>
    /\ UNCHANGED <<magicVars, serverVars, wireVars, cexit>>

\* TcpListener::bind fails: connect_loop returns Err, App::run logs and loops
BindFail(ok) ==
    /\ cpc = "bind"
    /\ LeaveLoop(ok, "bind", FALSE)
    /\ recv' = <<>>
    /\ emits' = <<>>
    /\ cresult' = Left("bind")
    /\ disc_out' = <<>>
    /\ UNCHANGED <<magicVars, serverVars, wireVars, cexit>>

\* try_join!: both futures done, the frame loop starts
JoinDone(acc, adv) == IF acc /\ adv THEN "loop" ELSE "listen"

\* a client that keeps its listener bound after the join
AcceptOk_keepListener ==
    /\ cpc = "listen"
    /\ ~accepted
    /\ accepted' = TRUE
    /\ cpc' = JoinDone(TRUE, advertised)
    /\ streams' = streams + 1
    /\ listener' = TRUE
    /\ UNCHANGED <<advertised, pressed_keys, buf, recv, emits, devKey,
                   cleanup, emitFailed>>
    /\ UNCHANGED cresult
    /\ disc_out' = <<>>
    /\ UNCHANGED <<magicVars, serverVars, wireVars, cexit>>

\* listener.accept() of try_join! completes
AcceptOk ==
    /\ cpc = "listen"
    /\ ~accepted
    /\ accepted' = TRUE
    /\ cpc' = JoinDone(TRUE, advertised)
    /\ streams' = streams + 1
    /\ listener' = (JoinDone(TRUE, advertised) = "listen")
    /\ UNCHANGED <<advertised, pressed_keys, buf, recv, emits, devKey,
                   cleanup, emitFailed>>
    /\ UNCHANGED cresult
    /\ disc_out' = <<>>
    /\ UNCHANGED <<magicVars, serverVars, wireVars, cexit>>

\* an advertisement that does not need the listener of the round
AdvertiseOk_beforeBind ==
    /\ cpc \in {"bind", "listen"}
    /\ ~advertised
    /\ advertised' = TRUE
    /\ cpc' = IF cpc = "bind" THEN "bind" ELSE JoinDone(accepted, TRUE)
    /\ listener' = (cpc' = "listen")
    /\ UNCHANGED streams
    /\ UNCHANGED <<accepted, pressed_keys, buf, recv, emits, devKey,
                   cleanup, emitFailed>>
    /\ UNCHANGED cresult
    /\ disc_out' = <<"advertise">>
    /\ UNCHANGED <<magicVars, serverVars, wireVars, cexit>>

\* disc.advertise() of try_join! completes: the packet has been sent
AdvertiseOk ==
    /\ cpc = "listen"
    /\ ~advertised
    /\ advertised' = TRUE
    /\ cpc' = JoinDone(accepted, TRUE)
    /\ listener' = (JoinDone(accepted, TRUE) = "listen")
    /\ UNCHANGED streams
    /\ UNCHANGED <<accepted, pressed_keys, buf, recv, emits, devKey,
                   cleanup, emitFailed>>
    /\ UNCHANGED cresult
    /\ disc_out' = <<"advertise">>
    /\ UNCHANGED <<magicVars, serverVars, wireVars, cexit>>

\* accept or advertise fails: try_join! returns the error
AcceptFail(ok) ==
    /\ cpc = "listen"
    /\ ~accepted
    /\ LeaveLoop(ok, "bind", FALSE)
    /\ UNCHANGED <<recv, emits>>
    /\ cresult' = Left("accept")
    /\ disc_out' = <<>>
    /\ UNCHANGED <<magicVars, serverVars, wireVars, cexit>>

AdvertiseFail(ok) ==
    /\ cpc = "listen"
    /\ ~advertised
    /\ LeaveLoop(ok, "bind", FALSE)
    /\ UNCHANGED <<recv, emits>>
    /\ cresult' = Left("advertise")
    /\ disc_out' = <<>>
    /\ UNCHANGED <<magicVars, serverVars, wireVars, cexit>>

\* a frame that is not SYN_REPORT/0: pressed_keys updated, pushed to buf
RecvEvent(next) ==
    /\ cpc = "loop"
    /\ Len(recv) < MaxFrames
    /\ ~LoopStep(buf, next).emit
    /\ recv' = Append(recv, next)
    /\ pressed_keys' = PressedUpdate(pressed_keys, next)
    /\ buf' = LoopStep(buf, next).buf
    /\ UNCHANGED <<listener, streams>>
    /\ UNCHANGED <<cpc, accepted, advertised, emits, devKey, cleanup,
                   emitFailed>>
    /\ UNCHANGED cresult
    /\ disc_out' = <<>>
    /\ UNCHANGED <<magicVars, serverVars, wireVars, cexit>>

\* SYN_REPORT/0 and dev.emit(&buf) succeeds
RecvSyn(next) ==
    /\ cpc = "loop"
    /\ Len(recv) < MaxFrames
    /\ LoopStep(buf, next).emit
    /\ recv' = Append(recv, next)
    /\ emits' = Append(emits, [evts |-> LoopStep(buf, next).batch,
                               ok |-> TRUE])
    /\ devKey' = Emit(devKey, LoopStep(buf, next).batch)
    /\ buf' = LoopStep(buf, next).buf
    /\ UNCHANGED <<listener, streams>>
    /\ UNCHANGED <<cpc, accepted, advertised, pressed_keys, cleanup,
                   emitFailed>>
    /\ UNCHANGED cresult
    /\ disc_out' = <<>>
    /\ UNCHANGED <<magicVars, serverVars, wireVars, cexit>>

\* SYN_REPORT/0 and dev.emit(&buf) fails: `.context("Emit events")?`
RecvSynEmitFail(next, ok) ==
    /\ cpc = "loop"
    /\ Len(recv) < MaxFrames
    /\ LoopStep(buf, next).emit
    /\ recv' = Append(recv, next)
    /\ emits' = Append(emits, [evts |-> LoopStep(buf, next).batch,
                               ok |-> FALSE])
    /\ LeaveLoop(ok, "bind", TRUE)
    /\ cresult' = Left("emit")
    /\ disc_out' = <<>>
    /\ UNCHANGED <<magicVars, serverVars, wireVars, cexit>>

\* framed.try_next() yields None: clean end of the connection
RecvEof(ok) ==
    /\ cpc = "loop"
    /\ LeaveLoop(ok, "bind", FALSE)
    /\ UNCHANGED <<recv, emits>>
    /\ cresult' = Left("eof")
    /\ disc_out' = <<>>
    /\ UNCHANGED <<magicVars, serverVars, wireVars, cexit>>

\* a driver that gives up when the frame stream fails
RecvError_exit(ok) ==
    /\ cpc = "loop"
    /\ LeaveLoop(ok, "exited", FALSE)
    /\ cexit' = "failure"
    /\ cresult' = Left("decode")
    /\ UNCHANGED <<recv, emits>>
    /\ disc_out' = <<>>
    /\ UNCHANGED <<magicVars, serverVars, wireVars>>

\* framed.try_next() yields Err: `.context("Get next data frame")?`
RecvError(ok) ==
    /\ cpc = "loop"
    /\ LeaveLoop(ok, "bind", FALSE)
    /\ UNCHANGED <<recv, emits>>
    /\ cresult' = Left("decode")
    /\ disc_out' = <<>>
    /\ UNCHANGED <<magicVars, serverVars, wireVars, cexit>>

\* main_imp: disc.respond(), polled by the same select! as App::run from
\* the start of main_imp on, receives a request and sends its reply
RespondReply ==
    /\ cpc # "exited"
    /\ disc_out' = <<"reply">>
    /\ UNCHANGED <<cpc, accepted, advertised, pressed_keys, buf, recv, emits,
                   devKey, cleanup, emitFailed, listener, streams, cresult>>
    /\ UNCHANGED <<magicVars, serverVars, wireVars, cexit>>

\* main_imp: disc.respond() returns Err first, App::run is dropped and main
\* ends with ExitCode::FAILURE
RespondFail(ok) ==
    /\ cpc # "exited"
    /\ LeaveLoop(ok, "exited", FALSE)
    /\ cexit' = "failure"
    /\ UNCHANGED <<recv, emits>>
    /\ cresult' = Left("dropped")
    /\ disc_out' = <<>>
    /\ UNCHANGED <<magicVars, serverVars, wireVars>>

\* a cancellation that drops App::run without running the guard
ClientCancel_noDrop(ok) ==
    /\ cpc # "exited"
    /\ ok
    /\ cpc' = "exited"
    /\ cexit' = "success"
    /\ UNCHANGED <<listener, streams>>
    /\ UNCHANGED <<accepted, advertised, pressed_keys, buf, recv, emits,
                   devKey, cleanup, emitFailed>>
    /\ cresult' = Left("dropped")
    /\ disc_out' = <<>>
    /\ UNCHANGED <<magicVars, serverVars, wireVars>>

\* main_imp: ctrl_c completes first, respond() and App::run are dropped
\* (DropGuard::drop runs when connect_loop is in progress), Ok(()) is
\* returned and main ends with ExitCode::SUCCESS
ClientCancel(ok) ==
    /\ cpc # "exited"
    /\ LeaveLoop(ok, "exited", FALSE)
    /\ cexit' = "success"
    /\ UNCHANGED <<recv, emits>>
    /\ cresult' = Left("dropped")
    /\ disc_out' = <<>>
    /\ UNCHANGED <<magicVars, serverVars, wireVars>>

NextClient ==
    \/ BindOk
    \/ \E ok \in BOOLEAN : BindFail(ok)
    \/ AcceptOk
    \/ AdvertiseOk
    \/ \E ok \in BOOLEAN : AcceptFail(ok)
    \/ \E ok \in BOOLEAN : AdvertiseFail(ok)
    \/ \E next \in ClientEvents : RecvEvent(next)
    \/ \E next \in ClientEvents : RecvSyn(next)
    \/ \E next \in ClientEvents, ok \in BOOLEAN : RecvSynEmitFail(next, ok)
    \/ \E ok \in BOOLEAN : RecvEof(ok)
    \/ \E ok \in BOOLEAN : RecvError(ok)
    \/ RespondReply
    \/ \E ok \in BOOLEAN : RespondFail(ok)
    \/ \E ok \in BOOLEAN : ClientCancel(ok)

SpecClient == InitClient /\ [][NextClient]_vars

(***************************************************************************)
(* Client properties.                                                      *)
(***************************************************************************)
\* C2: whenever connect_loop has been left, pressed_keys is empty, also when
\* the cleanup emission failed; the drop made an emit call iff keys were
\* pressed, that call carried exactly one (EV_KEY, k, 0) for every pressed k
\* and nothing else, and when it succeeded the device has those keys up.
StuckKeyCleanup ==
    /\ cpc # "loop" => pressed_keys = {}
    /\ cleanup.called <=> cleanup.keys # {}
    /\ Len(cleanup.evts) = Cardinality(cleanup.keys)
    /\ \A i \in 1..Len(cleanup.evts) :
          /\ cleanup.evts[i].type = EV_KEY
          /\ cleanup.evts[i].value = 0
          /\ cleanup.evts[i].code \in cleanup.keys
    /\ \A k \in cleanup.keys :
          Cardinality({i \in 1..Len(cleanup.evts) :
                          cleanup.evts[i].code = k}) = 1
    /\ (cpc # "loop" /\ cleanup.called /\ cleanup.ok)
          => \A k \in cleanup.keys : devKey[k] = 0

\* two keys were pressed at the exit and the cleanup emission failed
StuckKeyCleanupWitness ==
    /\ cpc = "bind"
    /\ cleanup.keys = {KEY_A, KEY_S}
    /\ ~cleanup.ok
    /\ pressed_keys = {}

\* C3: once connect_loop has been left and its cleanup is done, the last
\* EV_KEY event the virtual device took for any key has value 0 (stated for
\* the runs in which no dev.emit call ever failed).
NoStuckKeys ==
    (cpc # "loop" /\ ~emitFailed) => \A k \in ClientKeys : devKey[k] \in {-1, 0}

\* positions of SYN_REPORT/0 frames among the received frames
SynIdx == {i \in 1..Len(recv) :
              recv[i].type = 0 /\ recv[i].code = 0 /\ recv[i].value = 0}

\* position of the j-th SYN_REPORT/0 frame (0 for j = 0)
NthSyn(j) ==
    IF j = 0 THEN 0
    ELSE CHOOSE i \in SynIdx : Cardinality({x \in SynIdx : x <= i}) = j

KeyDownA == Ev(EV_KEY, KEY_A, 1)
KeyUpA == Ev(EV_KEY, KEY_A, 0)
Syn == Ev(EV_SYN, SYN_REPORT, 0)

\* C4: on one connection the emit calls of the loop are, in order, one per
\* received SYN_REPORT/0, each carrying the frames received since the
\* previous SYN_REPORT/0 in receive order; the frames after the last one stay
\* in buf; only the last call can have failed.  Key-down, syn, key-up, syn
\* gives the two batches <<key-down>>, <<key-up>> and no cleanup emission.
BatchedInOrder ==
    /\ Len(emits) = Cardinality(SynIdx)
    /\ \A j \in 1..Len(emits) :
          /\ emits[j].evts = SubSeq(recv, NthSyn(j - 1) + 1, NthSyn(j) - 1)
          /\ j < Len(emits) => emits[j].ok
    /\ cpc = "loop" =>
          buf = SubSeq(recv, NthSyn(Len(emits)) + 1, Len(recv))
    /\ (recv = <<KeyDownA, Syn, KeyUpA, Syn>> /\ cpc # "loop") =>
          /\ emits[1].evts = <<KeyDownA>>
          /\ emits[2].evts = <<KeyUpA>>
          /\ ~cleanup.called

BatchedInOrderWitness ==
    /\ recv = <<KeyDownA, Syn, KeyUpA, Syn>>
    /\ cpc = "bind"
    /\ emits[2].ok

\* C11: in every round of connect_loop the listener is bound first: the
\* round starts listening only by a successful bind, advertise() completes
\* and a connection is accepted only while the listener of the round is
\* bound, and a round whose bind fails sends no advertisement and accepts
\* nothing; the frame loop starts only when both have completed.
BindAdvertiseAccept ==
    [][/\ (cpc' = "listen" /\ cpc # "listen") => cpc = "bind"
       /\ (advertised' /\ ~advertised) => cpc = "listen"
       /\ (accepted' /\ ~accepted) => cpc = "listen"
       /\ (cpc = "bind" /\ cpc' # "listen") => ~advertised' /\ ~accepted'
       /\ cpc' = "loop" => advertised' /\ accepted']_vars

\* the listener is bound and the advertisement is out, nothing accepted yet
BindAdvertiseAcceptWitness ==
    /\ cpc = "listen"
    /\ advertised
    /\ ~accepted

(***************************************************************************)
(* Bytes and CRC-8 (discovery/crc.rs)                                      *)
(***************************************************************************)
Byte == 0..255

\* a ^ b on the n low bits
RECURSIVE XorBits(_, _, _)
XorBits(a, b, n) ==
    IF n = 0 THEN 0
    ELSE ((a + b) % 2) + 2 * XorBits(a \div 2, b \div 2, n - 1)

\* u8 `a ^ b`
Xor8(a, b) == XorBits(a, b, 8)

\* u8 `x << 1`
Shl8(x) == (2 * x) % 256

\* The table [u8; 256] is the sequence of its 256 entries: entry x of the
\* array is table[x + 1].
At(table, x) == table[x + 1]

\* inner loop of Crc8::create for one i (entries i .. 2i-1 are written from
\* entries 0 .. i-1, which it does not change):
\*   while j < i { table[i.wrapping_add(j)] = crc ^ table[j]; j += 1; }
InnerLoop(table, crc, i) ==
    SubSeq(table, 1, i)
        \o [j \in 1..i |-> Xor8(crc, table[j])]
        \o SubSeq(table, 2 * i + 1, 256)

\* outer loop of Crc8::create, from i on (i: u8, the loop ends when the
\* shift wraps to 0):
\*   crc = (crc << 1) ^ if crc & 0x80 != 0 { polynomial } else { 0 };
\*   inner loop;  i <<= 1;
RECURSIVE CreateLoop(_, _, _, _)
CreateLoop(table, crc, i, polynomial) ==
    IF i = 0 THEN table
    ELSE LET c == Xor8(Shl8(crc), IF crc >= 128 THEN polynomial ELSE 0)
         IN CreateLoop(InnerLoop(table, c, i), c, Shl8(i), polynomial)

\* Crc8::create
Crc8_create(polynomial) ==
    CreateLoop([x \in 1..256 |-> 0], 128, 1, polynomial)

\* pub const CRC8_9B: Crc8 = Crc8::create(0x9b)
CRC8_9B == Crc8_create(155)

\* a loop body that forgets the running value
CalcIter_noFeedback(table, crc, byte) == At(table, byte)

\* body of the loop of Crc8::calc: crc = self.0[(crc ^ buffer[i]) as usize]
CalcIter(table, crc, byte) == At(table, Xor8(crc, byte))

\* Crc8::calc(&self, buffer, len, crc), from index i (1-based) on
RECURSIVE CalcFrom(_, _, _, _, _)
CalcFrom(table, buffer, len, crc, i) ==
    IF i > len THEN crc
    ELSE CalcFrom(table, buffer, len, CalcIter(table, crc, buffer[i]), i + 1)

Crc8_calc(table, buffer, len, crc) == CalcFrom(table, buffer, len, crc, 1)

\* b"123456789", b"987654321", b"HOIP\0\0"
Digits19 == <<49, 50, 51, 52, 53, 54, 55, 56, 57>>
Digits91 == <<57, 56, 55, 54, 53, 52, 51, 50, 49>>
Hoip00 == <<72, 79, 73, 80, 0, 0>>

CalcBytes == {0, 1, 128, 255}

\* buffers given to Crc8::calc
CalcInputs ==
    {Digits19, Digits91, Hoip00}
        \cup {<<b>> : b \in Byte}
        \cup {<<a, b>> : a \in CalcBytes, b \in CalcBytes}

\* a call CRC8_9B.calc(buffer, len, crc) is entered
InitCalc ==
    /\ calc_buffer \in CalcInputs
    /\ calc_len = Len(calc_buffer)
    /\ calc_init \in Byte
    /\ calc_i = 0
    /\ calc_crc = calc_init
    /\ PacketIdle
    /\ CodecIdle
    /\ DiscIdle
    /\ MergeIdle
    /\ LanIdle
    /\ MagicIdle
    /\ ServerIdle
    /\ ClientIdle

\* one iteration of `while i < len`
CalcStep ==
    /\ calc_i < calc_len
    /\ calc_crc' = CalcIter(CRC8_9B, calc_crc, calc_buffer[calc_i + 1])
    /\ calc_i' = calc_i + 1
    /\ UNCHANGED <<calc_buffer, calc_len, calc_init>>
    /\ UNCHANGED <<packetVars, codecVars, discVars, mergeVars, lanVars,
                   magicVars, serverVars, clientVars>>

NextCalc == CalcStep

SpecCalc == InitCalc /\ [][NextCalc]_vars

\* the same CRC bit by bit, MSB first, not reflected: xor the byte in, then
\* eight times shift left and xor the polynomial when a one is shifted out
\* n shifts: the top bit goes out, the polynomial comes in if it was set
RECURSIVE BitShift(_, _, _)
BitShift(c, polynomial, n) ==
    IF n = 0 THEN c
    ELSE IF c >= 128
         THEN BitShift(Xor8(Shl8(c), polynomial), polynomial, n - 1)
         ELSE BitShift(Shl8(c), polynomial, n - 1)

RECURSIVE BitCrc(_, _, _)
BitCrc(bytes, crc, polynomial) ==
    IF bytes = <<>> THEN crc
    ELSE BitCrc(Tail(bytes), BitShift(Xor8(crc, Head(bytes)), polynomial, 8),
                polynomial)

\* C19: at every point of Crc8::calc with the table of Crc8::create(0x9B)
\* the running value is the bitwise MSB-first, non-reflected CRC-8 with
\* polynomial 0x9B of the bytes consumed so far, for every initial value;
\* the finished call gives 0xDA / 0x58 for "123456789" / "987654321" with
\* init 0xFF and 0xEA / 0x68 with init 0x00.
TableIsBitwise ==
    /\ calc_crc = BitCrc(SubSeq(calc_buffer, 1, calc_i), calc_init, 155)
    /\ calc_i = calc_len =>
          /\ (calc_buffer = Digits19 /\ calc_init = 255) => calc_crc = 218
          /\ (calc_buffer = Digits91 /\ calc_init = 255) => calc_crc = 88
          /\ (calc_buffer = Digits19 /\ calc_init = 0) => calc_crc = 234
          /\ (calc_buffer = Digits91 /\ calc_init = 0) => calc_crc = 104

\* the CDMA2000 check value has been computed
TableIsBitwiseWitness ==
    /\ calc_buffer = Digits19
    /\ calc_init = 255
    /\ calc_i = 9
    /\ calc_crc = 218

(***************************************************************************)
(* Discovery packet (discovery/packet.rs): #[repr(C, packed(1))] struct     *)
(* { pfx: [u8; 4], port: u16, crc: u8 } whose bytes are its memory image.  *)
(***************************************************************************)
\* const DISC_PFX: [u8; 4] = *b"HOIP"
DISC_PFX == <<72, 79, 73, 80>>

\* size_of::<Packet>()
PacketSize == 7

\* memory image of the field `port: u16` on a target of byte order e
PortBytes(port, e) ==
    IF e = "big" THEN <<port \div 256, port % 256>>
    ELSE <<port % 256, port \div 256>>

\* a reader that takes the two bytes as big-endian on every target
PortOf_be(b1, b2, e) == 256 * b1 + b2

\* the u16 read from two bytes of memory on a target of byte order e
PortOf(b1, b2, e) ==
    IF e = "big" THEN 256 * b1 + b2 ELSE 256 * b2 + b1

\* Packet::as_bytes: the pointer cast `self as *const Self as *const [u8; 7]`
as_bytes(this, e) == this.pfx \o PortBytes(this.port, e) \o <<this.crc>>

\* a crc taken over all seven bytes
Packet_crc_allBytes(this, e) ==
    Crc8_calc(CRC8_9B, as_bytes(this, e), PacketSize, 0)

\* Packet::crc: CRC8_9B.calc(bytes, bytes.len() - 1, 0)
Packet_crc(this, e) ==
    Crc8_calc(CRC8_9B, as_bytes(this, e), PacketSize - 1, 0)

\* a validation that accepts every crc byte
validate_crc_any(this, e) == TRUE

\* Packet::validate_crc
validate_crc(this, e) == this.crc = Packet_crc(this, e)

\* Packet::new followed by update_crc
Packet_new(port, e) ==
    LET this == [pfx |-> DISC_PFX, port |-> port, crc |-> 0]
    IN [this EXCEPT !.crc = Packet_crc(this, e)]

None == [some |-> FALSE]
Some(x) == [some |-> TRUE, pkt |-> x]

\* Packet::try_from_bytes
try_from_bytes(bytes, e) ==
    IF Len(bytes) # PacketSize THEN None
    ELSE LET p == [pfx |-> SubSeq(bytes, 1, 4),
                   port |-> PortOf(bytes[5], bytes[6], e),
                   crc |-> bytes[7]]
         IN IF p.pfx # DISC_PFX \/ ~validate_crc(p, e) THEN None ELSE Some(p)

\* ports whose packets are also parsed after being damaged
DamagedPorts == {0, 1, 27056, 65535}

InitPacket ==
    /\ endian \in {"little", "big"}
    /\ pkt = <<>>
    /\ wire = <<>>
    /\ parsed = <<>>
    /\ CalcIdle
    /\ CodecIdle
    /\ DiscIdle
    /\ MergeIdle
    /\ LanIdle
    /\ MagicIdle
    /\ ServerIdle
    /\ ClientIdle

\* let pkt = Packet::new(port)
PacketNew ==
    /\ pkt = <<>>
    /\ \E port \in 0..65535 : pkt' = <<Packet_new(port, endian)>>
    /\ UNCHANGED <<endian, wire, parsed>>
    /\ UNCHANGED <<calcVars, codecVars, discVars, mergeVars, lanVars,
                   magicVars, serverVars, clientVars>>

\* Packet::try_from_bytes(pkt.as_bytes())
ParseOwn ==
    /\ pkt # <<>>
    /\ parsed = <<>>
    /\ wire' = as_bytes(pkt[1], endian)
    /\ parsed' = <<try_from_bytes(wire', endian)>>
    /\ UNCHANGED <<endian, pkt>>
    /\ UNCHANGED <<calcVars, codecVars, discVars, mergeVars, lanVars,
                   magicVars, serverVars, clientVars>>

\* a packet has been built whose damaged copies are parsed too
CanDamage ==
    /\ pkt # <<>>
    /\ parsed = <<>>
    /\ pkt[1].port \in DamagedPorts

\* Packet::try_from_bytes(bytes) on a received datagram
ParseBytes(bytes) ==
    /\ wire' = bytes
    /\ parsed' = <<try_from_bytes(bytes, endian)>>
    /\ UNCHANGED <<endian, pkt>>
    /\ UNCHANGED <<calcVars, codecVars, discVars, mergeVars, lanVars,
                   magicVars, serverVars, clientVars>>

\* the datagram is the packet with one byte replaced by another value
ParseChanged ==
    /\ CanDamage
    /\ \E pos \in 1..PacketSize, v \in Byte :
          /\ as_bytes(pkt[1], endian)[pos] # v
          /\ ParseBytes([as_bytes(pkt[1], endian) EXCEPT ![pos] = v])

\* the datagram is the first n < 7 bytes of the packet
ParseShort ==
    /\ CanDamage
    /\ \E n \in 0..(PacketSize - 1) :
          ParseBytes(SubSeq(as_bytes(pkt[1], endian), 1, n))

\* the datagram is the packet followed by one more byte
ParseLong ==
    /\ CanDamage
    /\ \E v \in {0, 255} : ParseBytes(as_bytes(pkt[1], endian) \o <<v>>)

\* the datagram has another prefix byte and a crc byte that fits it
ParseOtherPrefix ==
    /\ CanDamage
    /\ \E pos \in 1..4, v \in {0, 72, 104} :
          /\ as_bytes(pkt[1], endian)[pos] # v
          /\ LET w == [as_bytes(pkt[1], endian) EXCEPT ![pos] = v]
             IN ParseBytes([w EXCEPT ![PacketSize] =
                               Crc8_calc(CRC8_9B, w, PacketSize - 1, 0)])

NextPacket ==
    \/ PacketNew
    \/ ParseOwn
    \/ ParseChanged
    \/ ParseShort
    \/ ParseLong
    \/ ParseOtherPrefix

SpecPacket == InitPacket /\ [][NextPacket]_vars

(***************************************************************************)
(* Packet properties.                                                      *)
(***************************************************************************)
\* the bytes the wire format asks for: "HOIP", port high byte, port low
\* byte, CRC-8 (polynomial 0x9B, init 0) of those six
NetworkOrder(port) ==
    LET six == DISC_PFX \o <<port \div 256, port % 256>>
    IN six \o <<BitCrc(six, 0, 155)>>

\* C13: the 7 bytes of the packet built for port p are "HOIP", p as a
\* big-endian u16 and the CRC-8 of those six bytes; for p = 27056 bytes 4
\* and 5 are 0x69, 0xB0.
WireBigEndian ==
    pkt # <<>> =>
        /\ as_bytes(pkt[1], endian) = NetworkOrder(pkt[1].port)
        /\ pkt[1].port = 27056 =>
              /\ as_bytes(pkt[1], endian)[5] = 105
              /\ as_bytes(pkt[1], endian)[6] = 176

\* C14: parsing the bytes of Packet::new(port) succeeds and yields a packet
\* equal to the original, with the same port and the same 7 bytes, for
\* every port of the u16 range.
PacketRoundTrip ==
    (parsed # <<>> /\ wire = as_bytes(pkt[1], endian)) =>
        /\ parsed[1].some
        /\ parsed[1].pkt = pkt[1]
        /\ parsed[1].pkt.port = pkt[1].port
        /\ as_bytes(parsed[1].pkt, endian) = wire
        /\ Len(wire) = PacketSize

PacketRoundTripWitness ==
    /\ parsed # <<>>
    /\ endian = "little"
    /\ pkt[1].port = 12345
    /\ wire = as_bytes(pkt[1], endian)
    /\ parsed[1].some

\* positions at which two byte strings of the same length differ
DiffAt(a, b) == {i \in 1..Len(a) : a[i] # b[i]}

\* C15: try_from_bytes accepts exactly the inputs of length 7 that start
\* with "HOIP" and end with the CRC-8 of their first six bytes; an input
\* that differs from a valid packet in exactly one byte is rejected.
ParseRejects ==
    parsed # <<>> =>
        /\ parsed[1].some <=>
              /\ Len(wire) = PacketSize
              /\ SubSeq(wire, 1, 4) = <<72, 79, 73, 80>>
              /\ wire[7] = BitCrc(SubSeq(wire, 1, 6), 0, 155)
        /\ (/\ Len(wire) = PacketSize
            /\ Cardinality(DiffAt(wire, as_bytes(pkt[1], endian))) = 1)
              => ~parsed[1].some

\* a packet with one byte of its port field changed was rejected
ParseRejectsWitness ==
    /\ parsed # <<>>
    /\ Len(wire) = PacketSize
    /\ DiffAt(wire, as_bytes(pkt[1], endian)) = {5}
    /\ ~parsed[1].some

\* C18 as stated: Packet::REQUEST = Packet::new(0) is the bytes
\* 48 4F 49 50 00 00 followed by the CRC byte 0xE2.
RequestCrcE2 ==
    (pkt # <<>> /\ pkt[1].port = 0) =>
        as_bytes(pkt[1], endian) = <<72, 79, 73, 80, 0, 0, 226>>

\* C18 amended: Packet::REQUEST = Packet::new(0) is the bytes
\* 48 4F 49 50 00 00 followed by the CRC-8 (polynomial 0x9B, init 0) of
\* "HOIP\0\0", and that CRC byte is 0xE1.
RequestCrcE1 ==
    (pkt # <<>> /\ pkt[1].port = 0) =>
        /\ as_bytes(pkt[1], endian) = <<72, 79, 73, 80, 0, 0, 225>>
        /\ pkt[1].crc = BitCrc(Hoip00, 0, 155)

\* the request packet has been built
RequestCrcWitness ==
    /\ pkt # <<>>
    /\ pkt[1].port = 0
    /\ pkt[1].crc = 225

(***************************************************************************)
(* Codec (codec.rs): 8-byte frames u16 type, u16 code, i32 value.          *)
(***************************************************************************)
\* i32::MAX and i32::MIN
I32Max == 2147483647
I32Min == -I32Max - 1

\* BufMut::put_u16: two bytes, big-endian
put_u16(n) == <<n \div 256, n % 256>>

\* four bytes of a number in 0 .. 2^31-1, big-endian
Be4(n) ==
    <<n \div 16777216, (n \div 65536) % 256, (n \div 256) % 256, n % 256>>

\* every byte complemented
Not4(bs) == [k \in 1..4 |-> 255 - bs[k]]

\* put_i32 writing the low byte first
put_i32_le(v) ==
    LET be == IF v >= 0 THEN Be4(v) ELSE Not4(Be4(-(v + 1)))
    IN <<be[4], be[3], be[2], be[1]>>

\* BufMut::put_i32: four bytes, big-endian two's complement (for v < 0 the
\* bytes are the complement of those of -(v + 1))
put_i32(v) == IF v >= 0 THEN Be4(v) ELSE Not4(Be4(-(v + 1)))

\* Buf::get_u16 on two bytes
get_u16(b1, b2) == 256 * b1 + b2

\* Buf::get_i32 on four bytes
get_i32(bs) ==
    LET n(x) == 16777216 * x[1] + 65536 * x[2] + 256 * x[3] + x[4]
    IN IF bs[1] < 128 THEN n(bs) ELSE -n(Not4(bs)) - 1

\* Encoder::encode: dst after the call (the call always returns Ok(()))
encode(item, d) ==
    d \o put_u16(item.type) \o put_u16(item.code) \o put_i32(item.value)

\* a decoder that throws a partial frame away
decode_dropShort(s) ==
    IF Len(s) < 8
    THEN [item |-> <<>>, src |-> <<>>]
    ELSE [item |-> <<Ev(get_u16(s[1], s[2]), get_u16(s[3], s[4]),
                        get_i32(SubSeq(s, 5, 8)))>>,
          src |-> SubSeq(s, 9, Len(s))]

\* Decoder::decode: item <<>> is Ok(None), <<e>> is Ok(Some(e)); src is the
\* buffer after the call
decode(s) ==
    IF Len(s) < 8
    THEN [item |-> <<>>, src |-> s]
    ELSE [item |-> <<Ev(get_u16(s[1], s[2]), get_u16(s[3], s[4]),
                        get_i32(SubSeq(s, 5, 8)))>>,
          src |-> SubSeq(s, 9, Len(s))]

\* events encoded by the model
CodecEvents ==
    {Ev(1, 30, 1), Ev(0, 0, 0), Ev(1, 30, 0),
     Ev(65535, 65535, -1),
     Ev(256, 1, 16909060),
     Ev(2, 256, I32Min),
     Ev(3, 4660, I32Max),
     Ev(4, 65280, -16909060)}

InitCodec ==
    /\ encoded = <<>>
    /\ dst = <<>>
    /\ inflight = <<>>
    /\ src = <<>>
    /\ decoded = <<>>
    /\ lastDecode = "-"
    /\ CalcIdle
    /\ PacketIdle
    /\ DiscIdle
    /\ MergeIdle
    /\ LanIdle
    /\ MagicIdle
    /\ ServerIdle
    /\ ClientIdle

\* the sender encodes one more event
Encode(item) ==
    /\ Len(encoded) < MaxEncoded
    /\ encoded' = Append(encoded, item)
    /\ dst' = encode(item, dst)
    /\ inflight' = inflight \o SubSeq(dst', Len(dst) + 1, Len(dst'))
    /\ UNCHANGED <<src, decoded, lastDecode>>
    /\ UNCHANGED <<calcVars, packetVars, discVars, mergeVars, lanVars,
                   magicVars, serverVars, clientVars>>

\* a read of n bytes from the connection into the decoder's buffer
Read(n) ==
    /\ n <= Len(inflight)
    /\ src' = src \o SubSeq(inflight, 1, n)
    /\ inflight' = SubSeq(inflight, n + 1, Len(inflight))
    /\ UNCHANGED <<encoded, dst, decoded, lastDecode>>
    /\ UNCHANGED <<calcVars, packetVars, discVars, mergeVars, lanVars,
                   magicVars, serverVars, clientVars>>

\* one call of Decoder::decode on the buffer
Decode ==
    /\ src' = decode(src).src
    /\ decoded' = decoded \o decode(src).item
    /\ lastDecode' = IF decode(src).item = <<>> THEN "none" ELSE "some"
    /\ UNCHANGED <<encoded, dst, inflight>>
    /\ UNCHANGED <<calcVars, packetVars, discVars, mergeVars, lanVars,
                   magicVars, serverVars, clientVars>>

NextCodec ==
    \/ \E item \in CodecEvents : Encode(item)
    \/ \E n \in 1..(8 * MaxEncoded) : Read(n)
    \/ Decode

SpecCodec == InitCodec /\ [][NextCodec]_vars

(***************************************************************************)
(* Either process, from its top-level select! on (hoips main, hoipc        *)
(* main_imp).                                                              *)
(***************************************************************************)
InitProc == InitServer \/ InitClient

NextProc == NextServer \/ NextClient

SpecProc == InitProc /\ [][NextProc]_vars

FrameOf(i) == SubSeq(dst, 8 * i - 7, 8 * i)

\* a 16-bit pattern read as a signed number
Signed16(n) == IF n >= 32768 THEN n - 65536 ELSE n

\* frame f holds item as u16, u16, i32 in network byte order
FrameLayout(f, item) ==
    /\ Len(f) = 8
    /\ \A k \in 1..8 : f[k] \in Byte
    /\ 256 * f[1] + f[2] = item.type
    /\ 256 * f[3] + f[4] = item.code
    /\ 65536 * Signed16(256 * f[5] + f[6]) + 256 * f[7] + f[8] = item.value

\* C16: every encode call appends exactly 8 bytes to dst, the event's type,
\* code and value in network byte order (00 01 00 1E 00 00 00 01 for
\* (1, 30, 1)); decoding a buffer that holds a frame yields the event that
\* was encoded and consumes exactly the 8 bytes of that frame.
CodecRoundTrip ==
    /\ [](/\ Len(dst) = 8 * Len(encoded)
          /\ \A i \in 1..Len(encoded) :
                /\ FrameLayout(FrameOf(i), encoded[i])
                /\ encoded[i] = Ev(1, 30, 1)
                     => FrameOf(i) = <<0, 1, 0, 30, 0, 0, 0, 1>>
          /\ Len(decoded) <= Len(encoded)
          /\ \A i \in 1..Len(decoded) : decoded[i] = encoded[i])
    /\ [][/\ (\E item \in CodecEvents : Encode(item))
               => /\ Len(dst') = Len(dst) + 8
                  /\ SubSeq(dst', 1, Len(dst)) = dst
          /\ (Decode /\ Len(src) >= 8)
               => /\ lastDecode' = "some"
                  /\ src' = SubSeq(src, 9, Len(src))
                  /\ Len(decoded') = Len(decoded) + 1
                  /\ FrameLayout(SubSeq(src, 1, 8),
                                 decoded'[Len(decoded')])]_vars

\* two events have made the round trip, a negative value and (1, 30, 1)
CodecRoundTripWitness ==
    /\ Len(decoded) = 2
    /\ decoded[1].value < 0
    /\ decoded[2] = Ev(1, 30, 1)
    /\ lastDecode = "some"

RECURSIVE EncodeAll(_)
\* the frames of a sequence of events, one after the other
EncodeAll(items) ==
    IF items = <<>>
    THEN <<>>
    ELSE encode(items[Len(items)], EncodeAll(SubSeq(items, 1, Len(items) - 1)))

\* C17: decode with fewer than 8 bytes buffered returns None and leaves the
\* buffer as it was; however the bytes arrive in reads, the decoded events
\* are the encoded ones in order, and once every byte has been read and no
\* whole frame is left in the buffer all of them have been decoded.
CodecShortRead ==
    /\ [][(Decode /\ Len(src) < 8)
             => /\ lastDecode' = "none"
                /\ src' = src
                /\ decoded' = decoded]_vars
    /\ [](/\ EncodeAll(decoded) \o src \o inflight = dst
          /\ decoded = SubSeq(encoded, 1, Len(decoded))
          /\ (inflight = <<>> /\ Len(src) < 8)
               => (src = <<>> /\ decoded = encoded))

\* decode said "need more" on a partial second frame after the first frame
\* was decoded
CodecShortReadWitness ==
    /\ lastDecode = "none"
    /\ Len(decoded) = 1
    /\ Len(src) \in 1..7
    /\ Len(encoded) = 2

(***************************************************************************)
(* Server: leaving a session that did not end with the chord               *)
(***************************************************************************)
SomeGrabbed == \E d \in Devices : grabbed[d]

\* the step completes the chord, in the session or in the wait after it
ChordStep ==
    /\ spc \in {"active", "wait2"}
    /\ \E evt \in ServerEvents : map_stream(mg, evt).item = "MagicKey"
    /\ mg' = Magic_from_iter(magic_key)

\* the session ends without the chord: TCP sink or device stream error, end
\* of the device stream, or a grab() failure in connect()
SessionEndsOtherwise ==
    \/ ActiveError
    \/ ActiveStreamEnd
    \/ \E failAt \in Devices : ConnectGrabFail(failAt)

\* C20: when a session ends without the chord and a device is grabbed, the
\* server keeps every grabbed device grabbed and waits for the chord; a
\* device is released only in a step that completes the chord, the wait is
\* left for the loop head only by that step with every device released, and
\* the server is never selecting or connecting next with a device grabbed.
KeepGrabbedUntilChord ==
    /\ [][/\ (SessionEndsOtherwise /\ SomeGrabbed')
               => /\ spc' = "wait2"
                  /\ do_wait'
                  /\ \A d \in Devices : grabbed[d] => grabbed'[d]
          /\ (\E d \in Devices : grabbed[d] /\ ~grabbed'[d]) => ChordStep
          /\ (spc = "wait2" /\ spc' # "wait2")
               => \/ spc' = "exited"
                  \/ /\ ChordStep
                     /\ \A d \in Devices : ~grabbed'[d]
                     /\ spc' = "wait1"]_vars
    /\ [](spc \in {"wait1", "select", "connecting"}
            => \A d \in Devices : ~grabbed[d])

\* the first session, started without a chord, failed with devices grabbed;
\* the only chord so far is the one awaited before the ungrab, and the
\* server is back at the loop head with every device released
KeepGrabbedUntilChordWitness ==
    /\ connect_on_start
    /\ yieldCount = 1
    /\ ~timedOut
    /\ remote \in failedPeers
    /\ chordFired
    /\ spc = "wait1"
    /\ do_wait
    /\ ndev > 0
    /\ \A d \in Devices : ~grabbed[d]

(***************************************************************************)
(* Server: failures of an attempt and of a selection                       *)
(***************************************************************************)
\* a line of the given level is among the lines l
HasLevel(l, level) == \E i \in 1..Len(l) : l[i].level = level

\* C21: when TcpStream::connect fails the peer is put on the blacklist, the
\* failure is logged as an error, and the server is selecting again next,
\* with no wait for the chord in between.
ConnectFailReselects ==
    [][ConnectFail
         => /\ remote \in invalid_peers'
            /\ HasLevel(logged', "error")
            /\ spc' = "select"]_vars

\* C22 as stated: when the top-level timeout elapses the server logs a
\* warning and is selecting again next, with no chord required.
SelectTimeoutStays ==
    [][SelectTimeout
         => /\ HasLevel(logged', "warn")
            /\ spc' = "select"]_vars

\* C22 amended: when the top-level timeout elapses the server logs a warning,
\* yields no peer and goes to the loop head; with do_wait set it waits for
\* the chord there and selects again only after the chord, with do_wait
\* unset it asks the selector again without a chord.
SelectTimeoutLoopHead ==
    [][/\ SelectTimeout
           => /\ logged' = <<LogNoRemote>>
              /\ remote' = remote /\ yieldCount' = yieldCount
              /\ selFut' = selFut
              /\ do_wait' = do_wait
              /\ spc' = IF do_wait THEN "wait1" ELSE "select"
       /\ (spc = "wait1" /\ spc' = "select")
           => /\ \E evt \in ServerEvents :
                    map_stream(mg, evt).item = "MagicKey"
              /\ ~timedOut']_vars

\* a chord was pressed, the selection timed out and the server is waiting for
\* the chord again
SelectTimeoutLoopHeadWitness ==
    /\ spc = "wait1"
    /\ timedOut
    /\ chordFired
    /\ yieldCount = 0
    /\ logged = <<LogNoRemote>>

\* every opened device is grabbed
AllGrabbed == \A d \in 1..ndev : grabbed[d]

\* C23: an event is written to the sink only in a session in which grab has
\* succeeded on every device; when grab fails on a device the attempt ends
\* with nothing written, the peer on the blacklist and the failure logged as
\* an error.
GrabBeforeForward ==
    /\ [](spc = "active" => AllGrabbed)
    /\ [][/\ (sent' # sent /\ sent' # <<>>)
               => (spc = "active" /\ spc' = "active" /\ AllGrabbed)
          /\ (\E failAt \in Devices : ConnectGrabFail(failAt))
               => /\ sent' = <<>>
                  /\ spc' \in {"wait1", "wait2", "select"}
                  /\ remote \in invalid_peers'
                  /\ HasLevel(logged', "error")]_vars

\* grab succeeded on the first device and failed on the second: nothing was
\* sent and the peer is on the blacklist
GrabBeforeForwardWitness ==
    /\ spc = "wait2"
    /\ ndev = 2
    /\ grabbed[1] /\ ~grabbed[2]
    /\ sent = <<>>
    /\ remote \in invalid_peers
    /\ logged = <<LogConnected, LogError>>

(***************************************************************************)
(* Server: what a session writes to the sink                               *)
(***************************************************************************)
\* event i of h leaves every chord key released after all of them were down
\* at once at some earlier point of h
CompletesChord(h, i) ==
    /\ \A k \in Chord : ValAt(h, k, i) = 0
    /\ \E j \in 1..(i - 1) : \A k \in Chord : ValAt(h, k, j) # 0

\* C24: the events written to the sink in a session are the events taken
\* from the merged device stream since the grab, in stream order, up to but
\* not including the first event that completes the chord; that event ends
\* the session and is not written, nor is anything after it; while
\* Magic::wait runs every event is consumed and nothing is written, and the
\* wait at the loop head ends on the event that completes the chord.
SinkIsStreamUntilChord ==
    /\ [](/\ Len(sent) <= Len(polled)
          /\ Len(polled) <= Len(sent) + 1
          /\ sent = SubSeq(polled, 1, Len(sent))
          /\ \A i \in 1..Len(sent) : ~CompletesChord(polled, i)
          /\ Len(polled) > Len(sent)
               => (CompletesChord(polled, Len(polled)) /\ spc # "active")
          /\ spc = "active" => polled = sent)
    /\ [][/\ (spc # "active" \/ spc' # "active")
               => (sent' = sent \/ sent' = <<>>)
          /\ (spc = "active" /\ sent' # sent)
               => \E evt \in ServerEvents : sent' = Append(sent, evt)
          /\ (spc = "wait1" /\ spc' = "select")
               => \E evt \in ServerEvents :
                     map_stream(mg, evt).item = "MagicKey"]_vars

\* a session forwarded the press of the chord key and ended on its release,
\* which was not written
SinkIsStreamUntilChordWitness ==
    /\ spc = "wait1"
    /\ Len(sent) >= 1
    /\ Len(polled) = Len(sent) + 1
    /\ polled[Len(polled)].value = 0
    /\ \A d \in Devices : ~grabbed[d]

\* C25: a session ended by the chord is a release asked for by the user, not
\* a failure: the peer is not put on the blacklist, the chord is logged at
\* info level and nothing at error level, and the devices are ungrabbed in
\* the same step with no further wait for the chord (an error line appears
\* only if ungrab() itself fails, which ends the process); every other error
\* of an attempt or session puts the peer on the blacklist and is logged as
\* an error.
ChordIsNotFailure ==
    [][/\ (\E evt \in ServerEvents, uf \in {0} \cup Devices :
               ActiveChord(evt, uf))
           => /\ invalid_peers' = invalid_peers
              /\ failedPeers' = failedPeers
              /\ \E i \in 1..Len(logged') : logged'[i] = LogMagicKey
              /\ spc' \in {"wait1", "exited"}
              /\ HasLevel(logged', "error") <=> spc' = "exited"
              /\ spc' = "wait1" => \A d \in Devices : ~grabbed'[d]
       /\ (\/ ConnectFail
           \/ ActiveError
           \/ \E failAt \in Devices : ConnectGrabFail(failAt))
           => /\ remote \in invalid_peers'
              /\ HasLevel(logged', "error")
              /\ \A i \in 1..Len(logged') : logged'[i] # LogMagicKey]_vars

\* a session was ended by the chord: the devices are released, the log has
\* no error line and the blacklist is empty
ChordIsNotFailureWitness ==
    /\ spc = "wait1"
    /\ logged = <<LogMagicKey, LogUngrabbed>>
    /\ Len(polled) = Len(sent) + 1
    /\ invalid_peers = {}
    /\ ndev > 0
    /\ \A d \in Devices : ~grabbed[d]

(***************************************************************************)
(* Server: the selector in discovery mode                                  *)
(***************************************************************************)
\* C26: while a peer request is racing, the cache-timeout arm is enabled
\* exactly when the cache is non-empty; with an empty cache the request can
\* only yield a new discovery or fail and the head of the cache is never
\* popped; with a non-empty cache the timeout arm can win, and then the
\* request yields the head of the cache, which goes to the tail.
CacheArmNeedsCache ==
    /\ [](selFut = "racing" => (timeoutArm <=> cache # <<>>))
    /\ []((spc = "select" /\ selFut = "racing" /\ yieldCount < MaxYields)
            => (ENABLED SelectCacheTimeout <=> cache # <<>>))
    /\ [][/\ SelectCacheTimeout
               => /\ cache # <<>>
                  /\ remote' = Head(cache)
                  /\ cache' = Append(Tail(cache), Head(cache))
                  /\ spc' = "connecting"
          /\ (selFut = "racing" /\ cache = <<>> /\ selFut' # "racing")
               => \/ spc' = "exited"
                  \/ /\ yieldVia' = "disc"
                     /\ remote' \notin Range(cache)
                     /\ cache' = <<remote'>>]_vars

\* with two peers cached and no new discovery the request yielded the head
\* of the cache and moved it to the tail
CacheArmNeedsCacheWitness ==
    /\ spc = "connecting"
    /\ yieldVia = "cache"
    /\ Len(cache) = 2
    /\ remote = cache[2]

\* C27: the new-discovery arm yields only addresses that are not in the
\* cache; every yielded address is at the tail of the cache afterwards and
\* the cache holds no address twice; a yield from the cache takes the head
\* and moves every other address one place towards the head, so with n >= 2
\* cached peers none is yielded twice in a row and, with no new peer and no
\* failure, each is yielded once per n requests, in rotation.
NoMonopoly ==
    /\ [](/\ \A i, j \in 1..Len(cache) : cache[i] = cache[j] => i = j
          /\ (spc = "connecting" /\ yieldVia \in {"disc", "cache"})
               => remote = cache[Len(cache)])
    /\ [][/\ (\E peer \in Peers : SelectDiscovered(peer))
               => /\ remote' \notin Range(cache)
                  /\ cache' = Append(cache, remote')
          /\ SelectCacheTimeout
               => /\ remote' = Head(cache)
                  /\ Len(cache') = Len(cache)
                  /\ cache'[Len(cache)] = remote'
                  /\ \A i \in 2..Len(cache) : cache'[i - 1] = cache[i]
                  /\ (Len(cache) >= 2 /\ remote \in Range(cache))
                       => remote' # remote]_vars

\* both peers are cached and the third yield is the head of the cache, the
\* peer that was yielded first
NoMonopolyWitness ==
    /\ spc = "connecting"
    /\ yieldVia = "cache"
    /\ yieldCount = 3
    /\ Len(cache) = 2
    /\ remote = cache[2]
    /\ failedPeers = {}

(***************************************************************************)
(* One forwarding session per process                                      *)
(***************************************************************************)
\* C28 as stated: the server holds at most one TCP connection, the client at
\* most one accepted connection, and the client's listener is closed as soon
\* as a connection is accepted: no listener is bound while the client holds
\* an accepted connection.
OneSessionNoListener ==
    /\ tcp_open <= 1
    /\ streams <= 1
    /\ streams > 0 => ~listener

\* C28 amended: the server holds at most one TCP connection and the client
\* at most one accepted connection; the client's listener is closed when
\* both the accept and the advertisement of the round have completed, so
\* none is bound while the frame loop of the connection runs, and it is
\* bound again only after that loop has exited; until the advertisement
\* completes the listener stays bound next to the accepted connection.
OneSession ==
    /\ [](/\ tcp_open \in {0, 1}
          /\ tcp_open = 1 <=> spc = "active"
          /\ streams \in {0, 1}
          /\ listener <=> cpc = "listen"
          /\ cpc = "loop" => (streams = 1 /\ ~listener)
          /\ (streams = 1 /\ listener) => (accepted /\ ~advertised))
    /\ [][/\ (listener' /\ ~listener)
               => (cpc = "bind" /\ streams = 0 /\ streams' = 0)
          /\ (streams' > streams) => (listener /\ streams = 0)
          /\ (listener /\ ~listener' /\ cpc' = "loop")
               => (accepted' /\ advertised')]_vars

\* the client reads frames from its one connection with no listener bound
OneSessionWitness ==
    /\ cpc = "loop"
    /\ streams = 1
    /\ ~listener
    /\ Len(recv) = 2
    /\ Len(emits) = 1

(***************************************************************************)
(* SpecDiscovery: one Discovery, with either respond() (the client) or the *)
(* stream of discovered() (the server) reading its UDP socket.             *)
(***************************************************************************)

\* const DISC_REQ: Packet = Packet::new(0); DISC_REQ_REF = DISC_REQ.as_bytes()
DISC_REQ_REF(e) == as_bytes(Packet_new(0, e), e)

\* length of `buf = [0u8; size_of::<Packet>() + 1]`
DiscBufLen == PacketSize + 1

\* a SocketAddr; an IPv4 one has no scope-id (kept as 0)
SocketAddr_new(ip, v6, port) ==
    [ip |-> ip, v6 |-> v6, port |-> port, scope |-> 0]

\* SocketAddrV6::set_scope_id
set_scope_id(a, scope) == [a EXCEPT !.scope = scope]

\* ports given on the command line
BindPorts == {1, 27056}
McstPorts == {27056}

\* hosts that send to the socket, each with the scope-id its address has on
\* arrival when the socket is an IPv6 one
Senders == {[ip |-> "x", scope |-> 0], [ip |-> "y", scope |-> 9]}

\* a datagram with a wrong first byte and a CRC that fits its six bytes
WrongPrefix(e) ==
    LET w == [as_bytes(Packet_new(27056, e), e) EXCEPT ![1] = 88]
    IN [w EXCEPT ![PacketSize] = Crc8_calc(CRC8_9B, w, PacketSize - 1, 0)]

\* payloads of the datagrams that arrive
Payloads(e) ==
    LET req == DISC_REQ_REF(e)
        adv == as_bytes(Packet_new(27056, e), e)
    IN {req, adv, as_bytes(Packet_new(1, e), e),
        <<>>, SubSeq(adv, 1, 3), SubSeq(adv, 4, PacketSize),
        SubSeq(req, 1, PacketSize - 1),
        [adv EXCEPT ![PacketSize] = (adv[PacketSize] + 1) % 256],
        [req EXCEPT ![PacketSize] = (req[PacketSize] + 1) % 256],
        WrongPrefix(e),
        req \o <<0>>, req \o <<0, 0>>, adv \o <<0>>}

\* Discovery::new: the socket is bound at bind_addr's address; an IPv6
\* multicast group needs an IPv6 bind address and takes its scope-id
InitDiscovery ==
    /\ endian \in {"little", "big"}
    /\ pkt = <<>>
    /\ wire = <<>>
    /\ parsed = <<>>
    /\ disc_role \in {"respond", "discover", "discovered"}
    /\ disc_state = "run"
    /\ disc_err = "none"
    /\ bind \in [v6 : BOOLEAN, port : BindPorts, scope : {0, 3}]
    /\ ~bind.v6 => bind.scope = 0
    /\ disc_mcst \in [v6 : BOOLEAN, port : McstPorts, scope : {0, 3}]
    /\ disc_mcst.v6 => bind.v6
    /\ disc_mcst.scope = (IF disc_mcst.v6 THEN bind.scope ELSE 0)
    /\ dgram = <<>>
    /\ read_buf = <<>>
    /\ sent_to = <<>>
    /\ polled_item = <<>>
    /\ CalcIdle
    /\ CodecIdle
    /\ MergeIdle
    /\ LanIdle
    /\ MagicIdle
    /\ ServerIdle
    /\ ClientIdle

\* a datagram from sender s as the socket reports it
Datagram(s, bytes) ==
    [bytes |-> bytes, ip |-> s.ip, v6 |-> bind.v6,
     scope |-> IF bind.v6 THEN s.scope ELSE 0]

\* the bytes recv_from leaves in a buffer with room for `room` bytes: the
\* rest of a longer datagram is dropped
Received(bytes, room) == SubSeq(bytes, 1, Min({Len(bytes), room}))

\* a test that replies to every well-formed packet
IsRequest_anyPacket(b, e) == try_from_bytes(b, e).some

\* respond: the negation of
\* `sz != size_of::<Packet>() || !matches!(&buf[..sz], DISC_REQ_REF)`
IsRequest(b, e) == Len(b) = PacketSize /\ b = DISC_REQ_REF(e)

\* respond: the packet of send_to and its destination
Reply(d) ==
    [bytes |-> as_bytes(Packet_new(bind.port, endian), endian),
     to |-> SocketAddr_new(d.ip, d.v6, disc_mcst.port)]

\* respond: one iteration of the loop in which every await returns Ok
RespondRecv(s, bytes) ==
    /\ disc_role = "respond"
    /\ disc_state = "run"
    /\ LET d == Datagram(s, bytes)
           b == Received(bytes, DiscBufLen)
       IN /\ dgram' = <<d>>
          /\ sent_to' = IF IsRequest(b, endian) THEN <<Reply(d)>> ELSE <<>>
    /\ UNCHANGED <<disc_role, disc_state, disc_err, bind, disc_mcst,
                   read_buf, polled_item>>
    /\ UNCHANGED <<calcVars, packetVars, codecVars, mergeVars, lanVars,
                   magicVars, serverVars, clientVars>>

\* kinds of io::Error a UDP send or receive returns: one that a later
\* call would not meet again, and one of a socket that is broken
ErrorKinds == {"transient", "broken"}

\* `.context(..)?` on an Err(e): the method returns Err whatever e is
Question(kind) == "failed"

\* respond: recv_from returns Err
RespondRecvFail(kind) ==
    /\ disc_role = "respond"
    /\ disc_state = "run"
    /\ disc_state' = Question(kind)
    /\ disc_err' = kind
    /\ dgram' = <<>>
    /\ sent_to' = <<>>
    /\ UNCHANGED <<disc_role, bind, disc_mcst, read_buf, polled_item>>
    /\ UNCHANGED <<calcVars, packetVars, codecVars, mergeVars, lanVars,
                   magicVars, serverVars, clientVars>>

\* respond: a request is received and send_to returns Err
RespondSendFail(s, kind) ==
    /\ disc_role = "respond"
    /\ disc_state = "run"
    /\ disc_state' = Question(kind)
    /\ disc_err' = kind
    /\ dgram' = <<Datagram(s, DISC_REQ_REF(endian))>>
    /\ sent_to' = <<>>
    /\ UNCHANGED <<disc_role, bind, disc_mcst, read_buf, polled_item>>
    /\ UNCHANGED <<calcVars, packetVars, codecVars, mergeVars, lanVars,
                   magicVars, serverVars, clientVars>>

\* discover: the interval ticks and send_to returns Ok
DiscoverSend ==
    /\ disc_role = "discover"
    /\ disc_state = "run"
    /\ sent_to' = <<[bytes |-> DISC_REQ_REF(endian),
                     to |-> [ip |-> "mcast", v6 |-> disc_mcst.v6,
                             port |-> disc_mcst.port,
                             scope |-> disc_mcst.scope]]>>
    /\ UNCHANGED <<disc_role, disc_state, disc_err, bind, disc_mcst, dgram,
                   read_buf, polled_item>>
    /\ UNCHANGED <<calcVars, packetVars, codecVars, mergeVars, lanVars,
                   magicVars, serverVars, clientVars>>

\* discover: the interval ticks and send_to returns Err
DiscoverSendFail(kind) ==
    /\ disc_role = "discover"
    /\ disc_state = "run"
    /\ disc_state' = Question(kind)
    /\ disc_err' = kind
    /\ sent_to' = <<>>
    /\ UNCHANGED <<disc_role, bind, disc_mcst, dgram, read_buf, polled_item>>
    /\ UNCHANGED <<calcVars, packetVars, codecVars, mergeVars, lanVars,
                   magicVars, serverVars, clientVars>>

\* discovered: the address built after the loop
Discovered(port, d) ==
    LET sock_addr == SocketAddr_new(d.ip, d.v6, port)
    IN IF sock_addr.v6 /\ disc_mcst.v6
       THEN set_scope_id(sock_addr, disc_mcst.scope)
       ELSE sock_addr

\* discovered: poll_recv_from is Ready(Ok(addr)) in the loop of one poll. It
\* writes into the unfilled part of the ReadBuf, which is made once per poll
\* and keeps what earlier iterations of this poll have filled;
\* try_from_bytes gets buf.filled()
DiscoveredRecv(s, bytes) ==
    /\ disc_role = "discovered"
    /\ LET d == Datagram(s, bytes)
           filled == read_buf \o Received(bytes, DiscBufLen - Len(read_buf))
           r == try_from_bytes(filled, endian)
       IN /\ dgram' = <<d>>
          /\ IF r.some /\ r.pkt.port # 0
             THEN /\ polled_item' = <<[ok |-> TRUE,
                                       addr |-> Discovered(r.pkt.port, d)]>>
                  /\ read_buf' = <<>>
             ELSE /\ polled_item' = <<>>
                  /\ read_buf' = filled
    /\ UNCHANGED <<disc_role, disc_state, disc_err, bind, disc_mcst, sent_to>>
    /\ UNCHANGED <<calcVars, packetVars, codecVars, mergeVars, lanVars,
                   magicVars, serverVars, clientVars>>

\* discovered: poll_recv_from is Pending, the poll returns Pending; the next
\* poll makes a new ReadBuf
DiscoveredPending ==
    /\ disc_role = "discovered"
    /\ read_buf # <<>>
    /\ read_buf' = <<>>
    /\ polled_item' = <<>>
    /\ UNCHANGED <<disc_role, disc_state, disc_err, bind, disc_mcst, dgram,
                   sent_to>>
    /\ UNCHANGED <<calcVars, packetVars, codecVars, mergeVars, lanVars,
                   magicVars, serverVars, clientVars>>

\* discovered: poll_recv_from is Ready(Err(e)), the poll returns Some(Err)
DiscoveredRecvFail ==
    /\ disc_role = "discovered"
    /\ polled_item' = <<[ok |-> FALSE]>>
    /\ dgram' = <<>>
    /\ read_buf' = <<>>
    /\ UNCHANGED <<disc_role, disc_state, disc_err, bind, disc_mcst, sent_to>>
    /\ UNCHANGED <<calcVars, packetVars, codecVars, mergeVars, lanVars,
                   magicVars, serverVars, clientVars>>

NextDiscovery ==
    \/ \E s \in Senders, bytes \in Payloads(endian) : RespondRecv(s, bytes)
    \/ \E kind \in ErrorKinds : RespondRecvFail(kind)
    \/ \E s \in Senders, kind \in ErrorKinds : RespondSendFail(s, kind)
    \/ DiscoverSend
    \/ \E kind \in ErrorKinds : DiscoverSendFail(kind)
    \/ \E s \in Senders, bytes \in Payloads(endian) : DiscoveredRecv(s, bytes)
    \/ DiscoveredPending
    \/ DiscoveredRecvFail

SpecDiscovery == InitDiscovery /\ [][NextDiscovery]_vars

(***************************************************************************)
(* Discovery properties.                                                   *)
(***************************************************************************)

\* a datagram that is a well-formed packet: seven bytes, "HOIP", two port
\* bytes, and the CRC-8 of the first six
WellFormed(bytes) ==
    /\ Len(bytes) = 7
    /\ SubSeq(bytes, 1, 4) = <<72, 79, 73, 80>>
    /\ bytes[7] = BitCrc(SubSeq(bytes, 1, 6), 0, 155)

\* the port its two port bytes hold in the memory of this target
PortField(bytes) == PortOf(bytes[5], bytes[6], endian)

\* C29: after an iteration of respond() that received a datagram, a packet
\* was sent exactly if the datagram is the well-formed 7-byte packet with
\* port 0 (and send_to did not fail); it is one packet holding the local
\* bind port, addressed to the sender's IP on the multicast port. After any
\* other datagram nothing was sent and respond() is still receiving
RespondOnlyToRequest ==
    (disc_role = "respond" /\ dgram # <<>>) =>
        LET d == dgram[1]
        IN IF WellFormed(d.bytes) /\ PortField(d.bytes) = 0
           THEN disc_state = "run" =>
                   /\ Len(sent_to) = 1
                   /\ WellFormed(sent_to[1].bytes)
                   /\ PortField(sent_to[1].bytes) = bind.port
                   /\ sent_to[1].to.ip = d.ip
                   /\ sent_to[1].to.port = disc_mcst.port
           ELSE sent_to = <<>> /\ disc_state = "run"

\* a request from y was answered with the bind port 1, which differs from
\* the multicast port
RespondOnlyToRequestWitness ==
    /\ disc_role = "respond"
    /\ disc_state = "run"
    /\ dgram # <<>>
    /\ dgram[1].ip = "y"
    /\ dgram[1].bytes = DISC_REQ_REF(endian)
    /\ bind.port = 1
    /\ sent_to # <<>>
    /\ sent_to[1].to.port = 27056

\* C30: when a poll of discovered() yields an address, the datagram just
\* received is a well-formed packet with a non-zero port, the address is
\* the sender's IP with that port, and an IPv6 address has the scope-id of
\* the local multicast address
DiscoveredOnlyValid ==
    (disc_role = "discovered" /\ polled_item # <<>> /\ polled_item[1].ok) =>
        LET d == dgram[1]
            a == polled_item[1].addr
        IN /\ WellFormed(d.bytes)
           /\ PortField(d.bytes) # 0
           /\ a.ip = d.ip
           /\ a.port = PortField(d.bytes)
           /\ (a.v6 /\ disc_mcst.v6) => a.scope = disc_mcst.scope

\* C31: respond() and discover() have returned only after an error of a
\* broken socket; a transient send or receive error leaves them running
NoStopOnTransient ==
    (disc_role \in {"respond", "discover"} /\ disc_state = "failed")
        => disc_err = "broken"

\* ways connect_loop returns
LoopOutcomes == {"eof", "bind", "accept", "advertise", "decode", "emit"}

\* C32: after connect_loop has returned, in whichever way, the client has
\* not ended: it is at TcpListener::bind again, holding no listener and no
\* connection, with the advertisement of the round still to send, and bind
\* is its next step; the error line was logged unless the connection ended
\* cleanly. A listener that becomes bound is followed by a new
\* advertisement and a new accept
ReentersConnectLoop ==
    /\ []((cresult # <<>> /\ cresult[1].how \in LoopOutcomes) =>
            /\ cpc = "bind"
            /\ cexit = "none"
            /\ ~listener /\ streams = 0
            /\ ~advertised /\ ~accepted
            /\ ENABLED BindOk
            /\ HasLevel(cresult[1].log, "error") <=> cresult[1].how # "eof")
    /\ [](cpc = "exited" => (cresult # <<>> /\ cresult[1].how = "dropped"))
    /\ []((cpc = "listen" /\ ~advertised) => ENABLED AdvertiseOk)
    /\ [][(listener' /\ ~listener) => (~advertised' /\ ~accepted')]_vars

\* a connection that had delivered a frame ended with a decode error, and
\* the client is back at the bind
ReentersConnectLoopWitness ==
    /\ cresult # <<>>
    /\ cresult[1].how = "decode"
    /\ recv # <<>>
    /\ cpc = "bind"
    /\ cexit = "none"

\* C33: the keys stored in the detector are always exactly the keys of the
\* configured chord, and an event of a key outside the chord signals
\* nothing and leaves armed and every stored key state as they were
ForeignKeyIgnored ==
    /\ [](DOMAIN mg.keys = Range(magic_key))
    /\ [][(/\ Len(hist') = Len(hist) + 1
            /\ IsKey(hist'[Len(hist')])
            /\ hist'[Len(hist')].code \notin Range(magic_key))
              => (mg' = mg /\ signals' = signals)]_vars

\* the detector is armed, one chord key is already released, and the last
\* event was a press of a key outside the chord
ForeignKeyIgnoredWitness ==
    /\ Len(hist) >= 2
    /\ IsKey(hist[Len(hist)])
    /\ hist[Len(hist)].code \notin Range(magic_key)
    /\ hist[Len(hist)].value = 1
    /\ mg.armed
    /\ \E k \in DOMAIN mg.keys : mg.keys[k] = 0
    /\ signals = {}

(***************************************************************************)
(* SpecMerge: the devices' event streams merged by select_all, sent over   *)
(* the connection and batched by the client's frame loop. The events are   *)
(* of keys outside the chord, and the codec returns what was encoded.      *)
(***************************************************************************)

\* reports a device delivers during one session
MaxReports == 2

\* what the kernel queues for one report: its events, then SYN_REPORT
Report(kind) ==
    IF kind = "key" THEN <<Ev(EV_KEY, KEY_A, 1), Syn>>
    ELSE <<Ev(EV_REL, 0, 1), Ev(EV_REL, 1, 1), Syn>>

ReportKinds == {"key", "move"}

\* an event together with the report it belongs to
Tagged(e, d, r, kind) ==
    [type |-> e.type, code |-> e.code, value |-> e.value,
     dev |-> d, rep |-> r, kind |-> kind]

Untagged(e) == Ev(e.type, e.code, e.value)

InitMerge ==
    /\ sources = [d \in Devices |-> <<>>]
    /\ produced = [d \in Devices |-> 0]
    /\ merged_buf = <<>>
    /\ last_emit = <<>>
    /\ CalcIdle
    /\ PacketIdle
    /\ CodecIdle
    /\ DiscIdle
    /\ LanIdle
    /\ MagicIdle
    /\ ServerIdle
    /\ ClientIdle

\* device d has a new report to read, once its stream has yielded the
\* report before
KernelReport(d, kind) ==
    /\ produced[d] < MaxReports
    /\ sources[d] = <<>>
    /\ produced' = [produced EXCEPT ![d] = @ + 1]
    /\ sources' = [sources EXCEPT ![d] =
                      [i \in 1..Len(Report(kind)) |->
                          Tagged(Report(kind)[i], d, produced[d] + 1, kind)]]
    /\ UNCHANGED <<merged_buf, last_emit>>
    /\ UNCHANGED <<calcVars, packetVars, codecVars, discVars, lanVars,
                   magicVars, serverVars, clientVars>>

\* select_all yields the next event of device d, whichever device with an
\* event ready that is; send_all writes it, the client decodes it and runs
\* the body of its frame loop
MergeNext(d) ==
    /\ sources[d] # <<>>
    /\ LET next == Head(sources[d])
           r == LoopStep(merged_buf, next)
       IN /\ merged_buf' = r.buf
          /\ last_emit' = IF r.emit
                          THEN <<[batch |-> r.batch, syn |-> next]>>
                          ELSE last_emit
    /\ sources' = [sources EXCEPT ![d] = Tail(@)]
    /\ UNCHANGED produced
    /\ UNCHANGED <<calcVars, packetVars, codecVars, discVars, lanVars,
                   magicVars, serverVars, clientVars>>

NextMerge ==
    \/ \E d \in Devices, kind \in ReportKinds : KernelReport(d, kind)
    \/ \E d \in Devices : MergeNext(d)

SpecMerge == InitMerge /\ [][NextMerge]_vars

\* C34: every batch the client emits is, with the SYN_REPORT that ended
\* it, exactly one report of one device: all its events are of the device
\* and report of that SYN_REPORT, and none of the report's events is missing
AtomicBatches ==
    last_emit # <<>> =>
        LET e == last_emit[1]
            all == Append(e.batch, e.syn)
        IN /\ \A i \in 1..Len(all) :
                 all[i].dev = e.syn.dev /\ all[i].rep = e.syn.rep
           /\ [i \in 1..Len(all) |-> Untagged(all[i])] = Report(e.syn.kind)

\* C35: a step in which the client sends a discovery packet with its TCP
\* port, an advertisement or a reply of respond(), starts in a state where
\* its TcpListener is bound
ListenerBeforeDiscovery == [][disc_out' # <<>> => listener]_vars

\* C36: while the server waits for the chord at the head of its loop,
\* pulls a peer or opens the TCP connection, no device is grabbed. A device
\* becomes grabbed only in the step that follows a successful TCP connect,
\* and the devices are all released only by the ungrab loop that ends with
\* "Ungrabbed devices"
GrabbedOnlyInSession ==
    /\ [](spc \in {"wait1", "select", "connecting"} => ~SomeGrabbed)
    /\ [][/\ (\E d \in Devices : grabbed'[d] /\ ~grabbed[d])
               => (spc = "connecting" /\ LogConnected \in Range(logged'))
          /\ (SomeGrabbed /\ ~SomeGrabbed')
               => LogUngrabbed \in Range(logged')]_vars

\* two devices were grabbed for a session and released, and the server is
\* back at the head of its loop waiting for the chord
GrabbedOnlyInSessionWitness ==
    /\ spc = "wait1"
    /\ ndev = 2
    /\ yieldCount >= 1
    /\ remote \notin failedPeers
    /\ LogUngrabbed \in Range(logged)
    /\ ~SomeGrabbed

\* the chord is completed while Magic::wait at the head of the loop runs
LoopHeadChord ==
    /\ spc = "wait1"
    /\ \E evt \in ServerEvents :
          /\ map_stream(mg, evt).item = "MagicKey"
          /\ mg' = map_stream(mg, evt).m

\* C37: do_wait is never cleared, and it is set whenever the server comes to
\* the head of its loop from a session that had grabbed a device. Once it is
\* set, a selection starts only in a step that completes the chord at the
\* head of the loop and a connection is attempted only out of a selection;
\* the chord that ends a session leads to the wait at the loop head, so a
\* second chord is needed before the next peer, with connect_on_start too
ChordBeforeEveryPeer ==
    [][/\ do_wait => do_wait'
       /\ (SomeGrabbed /\ spc' \in {"wait1", "select", "connecting"})
            => (do_wait' /\ spc' = "wait1")
       /\ (do_wait /\ spc # "select" /\ spc' = "select") => LoopHeadChord
       /\ (do_wait /\ spc # "connecting" /\ spc' = "connecting")
            => spc = "select"
       /\ (spc = "active" /\ LogMagicKey \in Range(logged'))
            => spc' \in {"wait1", "exited"}]_vars

\* started with connect_on_start, the first session was ended by the chord
\* and the server is connecting to its second peer
ChordBeforeEveryPeerWitness ==
    /\ connect_on_start
    /\ do_wait
    /\ spc = "connecting"
    /\ yieldCount = 2
    /\ failedPeers = {}
    /\ ~timedOut
    /\ ndev > 0

\* C38: the cache of discovered peers holds every address at most once
CacheHasNoDuplicates == Cardinality(Range(cache)) = Len(cache)

\* the third peer handed out is a new discovery that joined a cache of one
\* address, after a pop or a prune
CacheHasNoDuplicatesWitness ==
    /\ spc = "connecting"
    /\ yieldVia = "disc"
    /\ yieldCount = 3
    /\ Len(cache) = 2

(***************************************************************************)
(* SpecLan: the clients and servers of one multicast group. Every host has *)
(* one Discovery whose socket is bound on the multicast port and has       *)
(* joined the group; a client runs respond() on it and calls advertise(),  *)
(* a server runs discover() and reads the stream of discovered().          *)
(***************************************************************************)

\* calls of discover()'s send_to and of advertise() in one behaviour
MaxSends == 2

\* length of a chain of packets, each sent on the receipt of the one before
MaxHops == 3

LanClients == {"c1", "c2"}
LanServers == {"s1"}
LanHosts == LanClients \cup LanServers

\* ports of --listen: a fixed one, and 0 (the system picks the TCP port)
LanPorts == {0, 27056}

InitLan ==
    /\ endian \in {"little", "big"}
    /\ pkt = <<>>
    /\ wire = <<>>
    /\ parsed = <<>>
    /\ lan_listen \in [LanClients -> LanPorts]
    /\ net = {}
    /\ lan_sends = 0
    /\ lan_last = <<>>
    /\ CalcIdle
    /\ CodecIdle
    /\ DiscIdle
    /\ MergeIdle
    /\ MagicIdle
    /\ ServerIdle
    /\ ClientIdle

\* send_to(bytes, disc_mcst): one datagram for every other host of the
\* group (set_multicast_loop_v4/v6(false): none for the sender)
Multicast(h, bytes, origin, chain) ==
    {[from |-> h, to |-> m, bytes |-> bytes, origin |-> origin,
      chain |-> chain, hops |-> 0] : m \in LanHosts \ {h}}

\* discover: a tick of the interval; the request goes to the group
LanDiscover(s) ==
    /\ lan_sends < MaxSends
    /\ lan_sends' = lan_sends + 1
    /\ net' = net \cup Multicast(s, DISC_REQ_REF(endian), "discover",
                                 lan_sends + 1)
    /\ lan_last' = <<>>
    /\ UNCHANGED lan_listen
    /\ UNCHANGED <<calcVars, packetVars, codecVars, discVars, mergeVars,
                   magicVars, serverVars, clientVars>>

\* advertise: Packet::new(self.bind.port()) goes to the group
LanAdvertise(c) ==
    /\ lan_sends < MaxSends
    /\ lan_sends' = lan_sends + 1
    /\ net' = net \cup Multicast(c,
                     as_bytes(Packet_new(lan_listen[c], endian), endian),
                     "advertise", lan_sends + 1)
    /\ lan_last' = <<>>
    /\ UNCHANGED lan_listen
    /\ UNCHANGED <<calcVars, packetVars, codecVars, discVars, mergeVars,
                   magicVars, serverVars, clientVars>>

\* respond: the packet sent on the receipt of d by the client d.to, to
\* the IP of d's sender on the multicast port, where that host's socket
\* is bound
LanReply(d) ==
    [from |-> d.to, to |-> d.from,
     bytes |-> as_bytes(Packet_new(lan_listen[d.to], endian), endian),
     origin |-> "respond", chain |-> d.chain, hops |-> d.hops + 1]

\* respond: one iteration of the loop of client c, which receives d
LanRespond(c) ==
    /\ \E d \in net :
          /\ d.to = c
          /\ IF IsRequest(Received(d.bytes, DiscBufLen), endian)
             THEN /\ d.hops < MaxHops
                  /\ net' = (net \ {d}) \cup {LanReply(d)}
                  /\ lan_last' = <<[by |-> d, sent |-> LanReply(d)]>>
             ELSE /\ net' = net \ {d}
                  /\ lan_last' = <<>>
    /\ UNCHANGED <<lan_listen, lan_sends>>
    /\ UNCHANGED <<calcVars, packetVars, codecVars, discVars, mergeVars,
                   magicVars, serverVars, clientVars>>

\* discovered: the stream of server s receives d; whatever d holds, the
\* poll sends nothing
LanDiscovered(s) ==
    /\ \E d \in net :
          /\ d.to = s
          /\ net' = net \ {d}
    /\ lan_last' = <<>>
    /\ UNCHANGED <<lan_listen, lan_sends>>
    /\ UNCHANGED <<calcVars, packetVars, codecVars, discVars, mergeVars,
                   magicVars, serverVars, clientVars>>

NextLan ==
    \/ \E s \in LanServers : LanDiscover(s)
    \/ \E c \in LanClients : LanAdvertise(c)
    \/ \E c \in LanClients : LanRespond(c)
    \/ \E s \in LanServers : LanDiscovered(s)

SpecLan == InitLan /\ [][NextLan]_vars

\* C39: whenever the receipt of a packet made a host send one, the packet
\* received is a request sent by a server's discover(), the packet sent
\* holds a non-zero port, and it is the first packet that request led to
\* on this path: a reply or an advertisement triggers nothing, and a reply
\* is not answered
NoDiscoveryLoop ==
    lan_last # <<>> =>
        /\ lan_last[1].by.origin = "discover"
        /\ PortField(lan_last[1].sent.bytes) # 0
        /\ lan_last[1].sent.hops = 1

====
